---- MODULE Spec2Model ----
(***************************************************************************)
(* pysandra: an asyncio client for the CQL binary protocol, version 4.     *)
(*                                                                         *)
(* The module models, from the sources under src/pysandra:                 *)
(*   - core.Streams, the stream-id registry (create / update / remove);    *)
(*   - dispatcher.Dispatcher: its private copy of the registry, send,      *)
(*     the read task (_listener / _receive), retrieve, _connect and close; *)
(*   - connection.Connection.make_call and close on top of the dispatcher; *)
(*   - v4protocol.V4Protocol: the request builders, build_response and     *)
(*     respond, with the prepared-statement cache;                         *)
(*   - messages: the response decoders and the EXECUTE body encoder, over  *)
(*     byte sequences, with codecs' primitive decoders.                    *)
(*                                                                         *)
(* Python values are modelled as follows.  bytes are sequences of          *)
(* 0..255; str values are kept as their UTF-8 bytes; Optional[T] is a      *)
(* sequence of length 0 (None) or 1; a dict is the sequence of its         *)
(* [k, v] items in insertion order; an exception is the name of its class  *)
(* in the field err of a result record ("" when nothing was raised).       *)
(* asyncio is single-threaded and cooperative: an action is the code a     *)
(* task runs between two suspension points.                                *)
(***************************************************************************)
EXTENDS Integers, Sequences, FiniteSets, TLC

\* ---------------------------------------------------------------- bounds

\* stands for maxstream = 2 ** 15 of Streams.create / _new_stream_id,
\* scaled down so that the cursor wraps within the explored runs
maxstream == 3

\* ------------------------------------------------------------- constants

EVENT_STREAM_ID == -1

\* ------------------------------------------------ Optional[T] and dicts

None == <<>>

Some(x) == <<x>>

IsNone(o) == o = <<>>

Val(o) == o[1]

\* keys of a dict, as a set
Keys(d) == {d[i].k : i \in 1..Len(d)}

\* list(d.keys()): the keys in insertion order
KeyList(d) == [i \in 1..Len(d) |-> d[i].k]

Has(d, key) == \E i \in 1..Len(d) : d[i].k = key

Get(d, key) == d[CHOOSE i \in 1..Len(d) : d[i].k = key].v

\* d[key] = value: an existing key keeps its place, a new one goes last
Put(d, key, value) ==
    IF Has(d, key)
    THEN [i \in 1..Len(d) |-> IF d[i].k = key THEN [k |-> key, v |-> value] ELSE d[i]]
    ELSE Append(d, [k |-> key, v |-> value])

\* the dict without key (d.pop(key) keeps the order of the others)
Del(d, key) == SelectSeq(d, LAMBDA e : e.k # key)

\* ------------------------------------------------- core.Streams (core.py)

\* the while loop of Streams.create: scan forward from next_id, wrapping
\* to 0 past maxstream, until an id that is not live is found
RECURSIVE create_scan(_, _)
create_scan_noskip(next_id, live) ==
    IF next_id > maxstream THEN 0 ELSE next_id

\* a scan that starts over from 0 whatever the last id issued
create_scan_lowest(next_id, live) ==
    CHOOSE n \in 0..maxstream : n \notin live /\ \A m \in 0..(n - 1) : m \in live

create_scan(next_id, live) ==
    LET n == IF next_id > maxstream THEN 0 ELSE next_id
    IN  IF n \notin live THEN n ELSE create_scan(n + 1, live)

\* the variant of Streams.create that gives up one slot early, with
\* "if len(self._streams) >= maxstream"
Streams_create_early(strs, last_id) ==
    IF Len(strs) >= maxstream
    THEN [err |-> "MaximumStreamsException", id |-> EVENT_STREAM_ID,
          streams |-> strs, last |-> last_id]
    ELSE LET next_id == IF IsNone(last_id) THEN 0
                        ELSE create_scan(Val(last_id) + 1, Keys(strs))
         IN  [err |-> "", id |-> next_id,
              streams |-> Put(strs, next_id, None), last |-> Some(next_id)]

\* Streams.create: the id issued (or the exception) and the fields after it
Streams_create(strs, last_id) ==
    IF Len(strs) > maxstream
    THEN [err |-> "MaximumStreamsException", id |-> EVENT_STREAM_ID,
          streams |-> strs, last |-> last_id]
    ELSE LET next_id == IF IsNone(last_id) THEN 0
                        ELSE create_scan(Val(last_id) + 1, Keys(strs))
         IN  [err |-> "", id |-> next_id,
              streams |-> Put(strs, next_id, None), last |-> Some(next_id)]

\* the variant of Streams.update without its two tests
Streams_update_blind(strs, stream_id, store) ==
    [err |-> "", streams |-> Put(strs, stream_id, store)]

\* Streams.update
Streams_update(strs, stream_id, store) ==
    IF ~Has(strs, stream_id) THEN [err |-> "InternalDriverError", streams |-> strs]
    ELSE IF IsNone(store) THEN [err |-> "InternalDriverError", streams |-> strs]
    ELSE [err |-> "", streams |-> Put(strs, stream_id, store)]

\* Streams.remove: pop, then assert the popped store is not None
Streams_remove(strs, stream_id) ==
    IF ~Has(strs, stream_id)
    THEN [err |-> "InternalDriverError", store |-> None, streams |-> strs]
    ELSE IF IsNone(Get(strs, stream_id))
    THEN [err |-> "AssertionError", store |-> None, streams |-> Del(strs, stream_id)]
    ELSE [err |-> "", store |-> Get(strs, stream_id), streams |-> Del(strs, stream_id)]

\* ------------------------------------------------ constants.py enums

Opcode ==
    [ERROR |-> 0, STARTUP |-> 1, READY |-> 2, AUTHENTICATE |-> 3, OPTIONS |-> 5,
     SUPPORTED |-> 6, QUERY |-> 7, RESULT |-> 8, PREPARE |-> 9, EXECUTE |-> 10,
     REGISTER |-> 11, EVENT |-> 12, BATCH |-> 13, AUTH_CHALLENGE |-> 14,
     AUTH_RESPONSE |-> 15, AUTH_SUCCESS |-> 16]

\* the values Opcode(opcode_int) accepts
OpcodeValues == {0, 1, 2, 3, 5, 6, 7, 8, 9, 10, 11, 12, 13, 14, 15, 16}

Kind == [VOID |-> 1, ROWS |-> 2, SET_KEYSPACE |-> 3, PREPARED |-> 4, SCHEMA_CHANGE |-> 5]

ErrorCode ==
    [SERVER_ERROR |-> 0, PROTOCOL_ERROR |-> 10, AUTHENTICATION_ERROR |-> 256,
     UNAVAILABLE_EXCEPTION |-> 4096, OVERLOADED |-> 4097, IS_BOOTSTRAPPING |-> 4098,
     TRUNCATE_ERROR |-> 4099, WRITE_TIMEOUT |-> 4352, READ_TIMEOUT |-> 4608,
     READ_FAILURE |-> 4864, FUNCTION_FAILURE |-> 5120, WRITE_FAILURE |-> 5376,
     SYNTAX_ERROR |-> 8192, UNAUTHORIZED |-> 8448, INVALID |-> 8704,
     CONFIG_ERROR |-> 8960, ALREADY_EXISTS |-> 9216, UNPREPARED |-> 9472]

ErrorCodeValues == {ErrorCode[n] : n \in DOMAIN ErrorCode}

\* Consistency: ANY = 0 .. LOCAL_ONE = 0x000A
ConsistencyValues == 0..10

ResultFlags == [GLOBAL_TABLES_SPEC |-> 1, HAS_MORE_PAGES |-> 2, NO_METADATA |-> 4]

OptionID ==
    [CUSTOM |-> 0, ASCII |-> 1, BIGINT |-> 2, BLOB |-> 3, BOOLEAN |-> 4, COUNTER |-> 5,
     DECIMAL |-> 6, DOUBLE |-> 7, FLOAT |-> 8, INT |-> 9, TIMESTAMP |-> 11, UUID |-> 12,
     VARCHAR |-> 13, VARINT |-> 14, TIMEUUID |-> 15, INET |-> 16, DATE |-> 17,
     TIME |-> 18, SMALLINT |-> 19, TINYINT |-> 20]

\* str values of the enums, as their UTF-8 bytes
S_SIMPLE == <<83, 73, 77, 80, 76, 69>>
S_BATCH == <<66, 65, 84, 67, 72>>
S_UNLOGGED_BATCH == <<85, 78, 76, 79, 71, 71, 69, 68, 95, 66, 65, 84, 67, 72>>
S_COUNTER == <<67, 79, 85, 78, 84, 69, 82>>
S_BATCH_LOG == <<66, 65, 84, 67, 72, 95, 76, 79, 71>>
S_CAS == <<67, 65, 83>>
S_VIEW == <<86, 73, 69, 87>>
S_CDC == <<67, 68, 67>>
S_CREATED == <<67, 82, 69, 65, 84, 69, 68>>
S_UPDATED == <<85, 80, 68, 65, 84, 69, 68>>
S_DROPPED == <<68, 82, 79, 80, 80, 69, 68>>
S_KEYSPACE == <<75, 69, 89, 83, 80, 65, 67, 69>>
S_TABLE == <<84, 65, 66, 76, 69>>
S_TYPE == <<84, 89, 80, 69>>
S_FUNCTION == <<70, 85, 78, 67, 84, 73, 79, 78>>
S_AGGREGATE == <<65, 71, 71, 82, 69, 71, 65, 84, 69>>

WriteType ==
    {S_SIMPLE, S_BATCH, S_UNLOGGED_BATCH, S_COUNTER, S_BATCH_LOG, S_CAS, S_VIEW, S_CDC}

SchemaChangeType == {S_CREATED, S_UPDATED, S_DROPPED}

SchemaChangeTarget == {S_KEYSPACE, S_TABLE, S_TYPE, S_FUNCTION, S_AGGREGATE}

\* ------------------------------------------------ exceptions.py classes

\* isinstance(e, ServerError)
IsServerError(e) ==
    e \in {"ServerError", "ConnectionDroppedError", "VersionMismatchException",
           "ProtocolException", "UnknownPayloadException"}

\* isinstance(e, InternalDriverError)
IsInternalDriverError(e) ==
    e \in {"InternalDriverError", "StartupTimeout", "RequestTimeout"}

\* ------------------------------------------------ SBytes (core.py)

SBytes(val) == [data |-> val, idx |-> 0]

\* SBytes.grab: count bytes from the cursor, which advances only on success
grab(sb, count) ==
    IF sb.idx + count > Len(sb.data)
    THEN [err |-> "InternalDriverError", val |-> <<>>, sb |-> sb]
    ELSE [err |-> "", val |-> SubSeq(sb.data, sb.idx + 1, sb.idx + count),
          sb |-> [sb EXCEPT !.idx = sb.idx + count]]

at_end(sb) == sb.idx = Len(sb.data)

remaining(sb) == SubSeq(sb.data, sb.idx + 1, Len(sb.data))

\* ------------------------------------------------ integers in bytes

\* int.from_bytes(bs, byteorder="big", signed=False)
RECURSIVE UnsignedBE(_)
UnsignedBE(bs) ==
    IF bs = <<>> THEN 0
    ELSE UnsignedBE(SubSeq(bs, 1, Len(bs) - 1)) * 256 + bs[Len(bs)]

\* int.from_bytes(bs, byteorder="big", signed=True): the first byte carries
\* the sign, the others are added most significant first
RECURSIVE SignedBE(_)
SignedBE(bs) ==
    IF bs = <<>> THEN 0
    ELSE IF Len(bs) = 1 THEN (IF bs[1] >= 128 THEN bs[1] - 256 ELSE bs[1])
    ELSE SignedBE(SubSeq(bs, 1, Len(bs) - 1)) * 256 + bs[Len(bs)]

\* struct.pack("!H", value), for 0 <= value < 2 ** 16
encode_short(value) == <<value \div 256, value % 256>>

\* struct.pack("!l", value), for -2 ** 31 <= value < 2 ** 31
encode_int(value) ==
    LET hi == value \div 16777216
        lo == value % 16777216
    IN  <<hi % 256, lo \div 65536, (lo \div 256) % 256, lo % 256>>

\* encode_string and encode_long_string, of a value given as its bytes
encode_string(value_bytes) == encode_short(Len(value_bytes)) \o value_bytes

encode_long_string(value_bytes) == encode_int(Len(value_bytes)) \o value_bytes

encode_bytes(value_bytes) == encode_int(Len(value_bytes)) \o value_bytes

RECURSIVE encode_strings_list_rest(_)
encode_strings_list_rest(values) ==
    IF values = <<>> THEN <<>>
    ELSE encode_string(Head(values)) \o encode_strings_list_rest(Tail(values))

encode_strings_list(values) ==
    encode_short(Len(values)) \o encode_strings_list_rest(values)

\* ------------------------------------------------ UTF-8

\* the number of bytes of the UTF-8 sequence a lead byte opens (0: no lead)
Utf8Width(b) ==
    IF b < 128 THEN 1
    ELSE IF b \in 194..223 THEN 2
    ELSE IF b \in 224..239 THEN 3
    ELSE IF b \in 240..244 THEN 4
    ELSE 0

\* the values the byte after the lead byte may take
Utf8Second(lead) ==
    IF lead = 224 THEN 160..191
    ELSE IF lead = 237 THEN 128..159
    ELSE IF lead = 240 THEN 144..191
    ELSE IF lead = 244 THEN 128..143
    ELSE 128..191

\* whether bytes.decode("utf-8") accepts bs
RECURSIVE Utf8Valid(_)
Utf8Valid(bs) ==
    IF bs = <<>> THEN TRUE
    ELSE LET w == Utf8Width(bs[1])
         IN  /\ w > 0
             /\ Len(bs) >= w
             /\ w >= 2 => bs[2] \in Utf8Second(bs[1])
             /\ \A i \in 3..w : bs[i] \in 128..191
             /\ Utf8Valid(SubSeq(bs, w + 1, Len(bs)))

\* ------------------------------------------------ codecs.py decoders
\* Each decoder takes the cursor and gives [err, val, sb]: the exception
\* raised ("" for none), the value decoded and the cursor after it.

Raise(e, sb) == [err |-> e, val |-> <<>>, sb |-> sb]

Ret(v, sb) == [err |-> "", val |-> v, sb |-> sb]

\* statement sequencing: an exception raised by r ends the function, else
\* the statements after it, K, run with what r gave
Then(r, K(_)) == IF r.err # "" THEN r ELSE K(r)

decode_short(sb) == Then(grab(sb, 2), LAMBDA g : Ret(UnsignedBE(g.val), g.sb))

decode_int(sb) == Then(grab(sb, 4), LAMBDA g : Ret(SignedBE(g.val), g.sb))

decode_byte(sb) == Then(grab(sb, 1), LAMBDA g : Ret(g.val[1], g.sb))

decode_short_bytes(sb) ==
    Then(decode_short(sb), LAMBDA n :
        IF n.val = 0 THEN Ret(<<>>, n.sb) ELSE grab(n.sb, n.val))

decode_length_bytes(sb, length) ==
    IF length = 0 THEN Ret(<<>>, sb) ELSE grab(sb, length)

decode_int_bytes_must(sb) ==
    Then(decode_int(sb), LAMBDA n :
        IF n.val = 0 THEN Ret(<<>>, n.sb)
        ELSE IF n.val < 0 THEN Raise("InternalDriverError", n.sb)
        ELSE grab(n.sb, n.val))

decode_consistency(sb) ==
    Then(decode_short(sb), LAMBDA n :
        IF n.val \notin ConsistencyValues THEN Raise("InternalDriverError", n.sb)
        ELSE n)

\* decode_short_bytes(sbytes).decode("utf-8")
decode_string(sb) ==
    Then(decode_short_bytes(sb), LAMBDA b :
        IF ~Utf8Valid(b.val) THEN Raise("UnicodeDecodeError", b.sb) ELSE b)

\* the loop of decode_strings_list: todo strings are still to read
RECURSIVE decode_strings_loop(_, _, _)
decode_strings_loop(sb, todo, acc) ==
    IF todo = 0 THEN Ret(acc, sb)
    ELSE Then(decode_string(sb), LAMBDA s :
             decode_strings_loop(s.sb, todo - 1, Append(acc, s.val)))

decode_strings_list(sb) ==
    Then(decode_short(sb), LAMBDA n : decode_strings_loop(n.sb, n.val, <<>>))

\* the loop of decode_string_multimap; multimap[key] = values
RECURSIVE decode_multimap_loop(_, _, _)
decode_multimap_loop(sb, todo, acc) ==
    IF todo = 0 THEN Ret(acc, sb)
    ELSE Then(decode_string(sb), LAMBDA key :
         Then(decode_strings_list(key.sb), LAMBDA values :
             decode_multimap_loop(values.sb, todo - 1,
                                  Put(acc, key.val, values.val))))

decode_string_multimap(sb) ==
    Then(decode_short(sb), LAMBDA n : decode_multimap_loop(n.sb, n.val, <<>>))

\* ------------------------------------------------ messages.py responses
\* A response message is a record with its class in cls, its opcode and the
\* fields of the class.  A build gives [err, val, sb] like a decoder.

\* flags & bit != 0, for a bit given by its value (1, 2, 4, ...)
HasFlag(flags, bit) == (flags \div bit) % 2 = 1

\* ReadyMessage.build
ReadyMessage_build(sb) ==
    Ret([cls |-> "ReadyMessage", opcode |-> Opcode.READY], sb)

\* SupportedMessage.build
SupportedMessage_build(sb) ==
    Then(decode_string_multimap(sb), LAMBDA options :
        Ret([cls |-> "SupportedMessage", opcode |-> Opcode.SUPPORTED,
             options |-> options.val], options.sb))

\* The details ErrorMessage.build decodes for an error code: the key of each
\* and the decoder applied, in the order of the statements of the branch.
ErrorDetailsLayout(error_code) ==
    IF error_code = ErrorCode.UNAVAILABLE_EXCEPTION
    THEN << <<"consistency_level", "consistency">>, <<"required", "int">>,
            <<"alive", "int">> >>
    ELSE IF error_code = ErrorCode.WRITE_TIMEOUT
    THEN << <<"consistency_level", "consistency">>, <<"received", "int">>,
            <<"block_for", "int">>, <<"write_type", "write_type">> >>
    ELSE IF error_code = ErrorCode.READ_TIMEOUT
    THEN << <<"consistency_level", "consistency">>, <<"received", "int">>,
            <<"block_for", "int">>, <<"data_present", "byte">> >>
    ELSE IF error_code = ErrorCode.READ_FAILURE
    THEN << <<"consistency_level", "consistency">>, <<"received", "int">>,
            <<"block_for", "int">>, <<"num_failures", "int">>,
            <<"data_present", "byte">> >>
    ELSE IF error_code = ErrorCode.FUNCTION_FAILURE
    THEN << <<"keyspace", "string">>, <<"function", "string">>,
            <<"arg_types", "strings_list">> >>
    ELSE IF error_code = ErrorCode.WRITE_FAILURE
    THEN << <<"consistency_level", "consistency">>, <<"received", "int">>,
            <<"block_for", "int">>, <<"num_failures", "int">>,
            <<"data_present", "byte">>, <<"write_type", "write_type">> >>
    ELSE IF error_code = ErrorCode.ALREADY_EXISTS
    THEN << <<"keyspace", "string">>, <<"table", "string">> >>
    ELSE IF error_code = ErrorCode.UNPREPARED
    THEN << <<"statement_id", "short_bytes">> >>
    ELSE << >>

\* one decoder call of ErrorMessage.build; a write_type is a [string] that
\* WriteType(string) must accept
decode_detail(sb, how) ==
    IF how = "consistency" THEN decode_consistency(sb)
    ELSE IF how = "int" THEN decode_int(sb)
    ELSE IF how = "byte" THEN decode_byte(sb)
    ELSE IF how = "strings_list" THEN decode_strings_list(sb)
    ELSE IF how = "short_bytes" THEN decode_short_bytes(sb)
    ELSE Then(decode_string(sb), LAMBDA string :
             IF how = "write_type" /\ string.val \notin WriteType
             THEN Raise("InternalDriverError", string.sb)
             ELSE string)

RECURSIVE decode_details(_, _, _)
decode_details(sb, layout, details) ==
    IF layout = <<>> THEN Ret(details, sb)
    ELSE Then(decode_detail(sb, Head(layout)[2]), LAMBDA d :
             decode_details(d.sb, Tail(layout), Put(details, Head(layout)[1], d.val)))

\* ErrorMessage.build
ErrorMessage_build(sb) ==
    Then(decode_int(sb), LAMBDA code :
        IF code.val \notin ErrorCodeValues THEN Raise("InternalDriverError", code.sb)
        ELSE Then(decode_string(code.sb), LAMBDA error_text :
             Then(decode_details(error_text.sb, ErrorDetailsLayout(code.val), <<>>),
                  LAMBDA details :
                 Ret([cls |-> "ErrorMessage", opcode |-> Opcode.ERROR,
                      error_code |-> code.val, error_text |-> error_text.val,
                      details |-> details.val], details.sb))))

S_TOPOLOGY_CHANGE == <<84, 79, 80, 79, 76, 79, 71, 89, 95, 67, 72, 65, 78, 71, 69>>
S_STATUS_CHANGE == <<83, 84, 65, 84, 85, 83, 95, 67, 72, 65, 78, 71, 69>>
S_SCHEMA_CHANGE == <<83, 67, 72, 69, 77, 65, 95, 67, 72, 65, 78, 71, 69>>

Events == {S_TOPOLOGY_CHANGE, S_STATUS_CHANGE, S_SCHEMA_CHANGE}

S_NEW_NODE == <<78, 69, 87, 95, 78, 79, 68, 69>>
S_REMOVED_NODE == <<82, 69, 77, 79, 86, 69, 68, 95, 78, 79, 68, 69>>
S_ON == <<79, 78>>
S_OFF == <<79, 70, 70>>

TopologyStatus == {S_NEW_NODE, S_REMOVED_NODE}

NodeStatus == {S_ON, S_OFF}

\* sys.byteorder of the machines the driver is run on
byteorder == "little"

RECURSIVE Reversed(_)
Reversed(bs) == IF bs = <<>> THEN <<>> ELSE Append(Reversed(Tail(bs)), Head(bs))

\* decode_inet: [byte n][n bytes][int port], n 4 or 16; the address is read
\* with int.from_bytes in the byte order of the machine, kept here as the
\* bytes of that integer from the most significant down
decode_inet(sb) ==
    Then(decode_byte(sb), LAMBDA length :
        IF length.val \notin {4, 16} THEN Raise("InternalDriverError", length.sb)
        ELSE Then(decode_length_bytes(length.sb, length.val), LAMBDA address :
             Then(decode_int(address.sb), LAMBDA port :
                 Ret([ipaddr |-> IF byteorder = "big" THEN address.val
                                 ELSE Reversed(address.val),
                      port |-> port.val], port.sb))))

\* the options EventMessage.decode_schema_change decodes for a target
SchemaChangeLayout(target) ==
    IF target = S_KEYSPACE THEN << <<"target_name", "string">> >>
    ELSE IF target \in {S_TABLE, S_TYPE}
    THEN << <<"keyspace_name", "string">>, <<"target_name", "string">> >>
    ELSE << <<"keyspace_name", "string">>, <<"target_name", "string">>,
            <<"argument_types", "strings_list">> >>

\* EventMessage.decode_schema_change
decode_schema_change(sb) ==
    Then(decode_string(sb), LAMBDA change_type :
        IF change_type.val \notin SchemaChangeType
        THEN Raise("UnknownPayloadException", change_type.sb)
        ELSE Then(decode_string(change_type.sb), LAMBDA target :
            IF target.val \notin SchemaChangeTarget
            THEN Raise("UnknownPayloadException", target.sb)
            ELSE Then(decode_details(target.sb, SchemaChangeLayout(target.val), <<>>),
                      LAMBDA options :
                     Ret([change_type |-> change_type.val, target |-> target.val,
                          options |-> options.val], options.sb))))

\* EventMessage.build for TOPOLOGY_CHANGE and STATUS_CHANGE: the status, then
\* the node
decode_node_change(sb, cls, statuses) ==
    Then(decode_string(sb), LAMBDA status :
        IF status.val \notin statuses THEN Raise("UnknownPayloadException", status.sb)
        ELSE Then(decode_inet(status.sb), LAMBDA node :
                 Ret([cls |-> cls, status |-> status.val, node |-> node.val],
                     node.sb)))

\* EventMessage.build
EventMessage_build(sb) ==
    Then(decode_string(sb), LAMBDA event :
        IF event.val \notin Events THEN Raise("UnknownPayloadException", event.sb)
        ELSE Then(IF event.val = S_TOPOLOGY_CHANGE
                  THEN decode_node_change(event.sb, "TopologyChange", TopologyStatus)
                  ELSE IF event.val = S_STATUS_CHANGE
                  THEN decode_node_change(event.sb, "StatusChange", NodeStatus)
                  ELSE Then(decode_schema_change(event.sb), LAMBDA change :
                           Ret([cls |-> "SchemaChange",
                                change_type |-> change.val.change_type,
                                target |-> change.val.target,
                                options |-> change.val.options], change.sb)),
                  LAMBDA event_obj :
                 Ret([cls |-> "EventMessage", opcode |-> Opcode.RESULT,
                      event_type |-> event.val, event |-> event_obj.val],
                     event_obj.sb)))

\* <ksname><tablename> of a column: those of the global table spec, or read
ColumnTable(sb, isglobal, global) ==
    IF isglobal THEN Ret(global, sb)
    ELSE Then(decode_string(sb), LAMBDA ksname :
         Then(decode_string(ksname.sb), LAMBDA tablename :
             Ret(<<ksname.val, tablename.val>>, tablename.sb)))

\* the loop of ResultMessage.decode_col_specs over the columns
RECURSIVE decode_col_specs_loop(_, _, _, _, _)
decode_col_specs_loop(sb, result_flags, todo, global, col_specs) ==
    IF todo <= 0 THEN Ret(col_specs, sb)
    ELSE Then(ColumnTable(sb, HasFlag(result_flags, ResultFlags.GLOBAL_TABLES_SPEC),
                          global), LAMBDA table :
         Then(decode_string(table.sb), LAMBDA name :
         Then(decode_short(name.sb), LAMBDA option_id :
             IF option_id.val < 1 \/ option_id.val > 20
             THEN Raise("InternalDriverError", option_id.sb)
             ELSE decode_col_specs_loop(option_id.sb, result_flags, todo - 1, global,
                      Append(col_specs,
                             [ksname |-> table.val[1], tablename |-> table.val[2],
                              name |-> name.val, option_id |-> option_id.val])))))

\* ResultMessage.decode_col_specs
decode_col_specs(result_flags, columns_count, sb) ==
    IF HasFlag(result_flags, ResultFlags.GLOBAL_TABLES_SPEC)
    THEN Then(decode_string(sb), LAMBDA global_keyspace :
         Then(decode_string(global_keyspace.sb), LAMBDA global_table :
             decode_col_specs_loop(global_table.sb, result_flags, columns_count,
                                   <<global_keyspace.val, global_table.val>>, <<>>)))
    ELSE decode_col_specs_loop(sb, result_flags, columns_count, <<>>, <<>>)

\* ------------------------------------------------ cells of a Rows result
\* A decoded cell is a record [t, v]: the Python type and the value.  Values
\* too wide for the integers of the checker stay big-endian magnitudes.

RECURSIVE StripZeros(_)
StripZeros(bs) ==
    IF bs # <<>> /\ bs[1] = 0 THEN StripZeros(Tail(bs)) ELSE bs

RECURSIVE LexLE(_, _)
LexLE(a, b) ==
    IF a = <<>> THEN TRUE
    ELSE IF a[1] # b[1] THEN a[1] < b[1]
    ELSE LexLE(Tail(a), Tail(b))

\* a <= b for magnitudes without leading zeros
MagLE(a, b) == Len(a) < Len(b) \/ (Len(a) = Len(b) /\ LexLE(a, b))

\* 253402300799999, the last millisecond of year 9999: utcfromtimestamp
\* raises ValueError beyond it
MaxTimestampMs == <<230, 119, 210, 31, 219, 255>>

\* days from 1970-01-01 back to date.min and on to date.max
MinDateDays == -719162

MaxDateDays == 2932896

\* bs with zeros in front up to n bytes
PadLeft(bs, n) == [i \in 1..n |-> IF i <= n - Len(bs) THEN 0 ELSE bs[i - (n - Len(bs))]]

\* the value less 2 ** (8 * Len(bs) - 1), as a two's complement
FlipTop(bs) == [bs EXCEPT ![1] = (bs[1] + 128) % 256]

Cell(type, value) == [err |-> "", val |-> [t |-> type, v |-> value]]

CellRaise(e) == [err |-> e, val |-> <<>>]

DateOfDays(days) ==
    IF days < MinDateDays \/ days > MaxDateDays THEN CellRaise("OverflowError")
    ELSE Cell("date", days)

\* the DECIMAL branch, after scale = decode_int(value)
DecimalCell(scale) ==
    IF scale.err # "" THEN CellRaise(scale.err)
    ELSE Cell("Decimal", [unscaled |-> SignedBE(remaining(scale.sb)),
                          scale |-> scale.val])

\* the DATE branch: the days from 1970-01-01 are the unsigned value less
\* 2 ** 31; timedelta and the sum with a date raise OverflowError out of range
DateCell(mag) ==
    IF Len(mag) > 4 THEN CellRaise("OverflowError")
    ELSE DateOfDays(SignedBE(FlipTop(PadLeft(mag, 4))))

\* the branch of ResultMessage.build for one cell with a column spec
decode_cell(option_id, value) ==
    IF option_id \in {OptionID.INT, OptionID.BIGINT, OptionID.SMALLINT, OptionID.TIME,
                      OptionID.TINYINT, OptionID.VARINT}
    THEN Cell("int", SignedBE(value))
    ELSE IF option_id = OptionID.BLOB THEN Cell("bytes", value)
    ELSE IF option_id \in {OptionID.ASCII, OptionID.VARCHAR}
    THEN IF Utf8Valid(value) THEN Cell("str", value) ELSE CellRaise("UnicodeDecodeError")
    ELSE IF option_id = OptionID.DECIMAL
    THEN DecimalCell(decode_int(SBytes(value)))
    ELSE IF option_id = OptionID.DOUBLE
    THEN IF Len(value) = 8 THEN Cell("float", value) ELSE CellRaise("struct.error")
    ELSE IF option_id = OptionID.FLOAT
    THEN IF Len(value) = 4 THEN Cell("float", value) ELSE CellRaise("struct.error")
    ELSE IF option_id = OptionID.INET
    THEN IF Len(value) \notin {4, 16} THEN CellRaise("InternalDriverError")
         ELSE Cell("ipaddress", value)
    ELSE IF option_id \in {OptionID.TIMEUUID, OptionID.UUID}
    THEN IF Len(StripZeros(value)) > 16 THEN CellRaise("ValueError")
         ELSE Cell("UUID", StripZeros(value))
    ELSE IF option_id = OptionID.BOOLEAN THEN Cell("bool", value # <<0>>)
    ELSE IF option_id = OptionID.TIMESTAMP
    THEN IF MagLE(StripZeros(value), MaxTimestampMs)
         THEN Cell("datetime", StripZeros(value))
         ELSE CellRaise("ValueError")
    ELSE IF option_id = OptionID.DATE
    THEN DateCell(StripZeros(value))
    ELSE CellRaise("InternalDriverError")

\* the cell decoded, as the step of a decoder at the cursor sb
CellAt(cell, sb) == [err |-> cell.err, val |-> cell.val, sb |-> sb]

\* one cell of a row: the bytes, decoded by the type of the column if the
\* result came with column specs
RowCell(value, colcnt, col_specs) ==
    IF IsNone(col_specs) THEN Ret([t |-> "bytes", v |-> value.val], value.sb)
    ELSE CellAt(decode_cell(Val(col_specs)[colcnt + 1].option_id, value.val), value.sb)

\* the inner loop of the Rows branch: the cells of one row
RECURSIVE decode_row(_, _, _, _, _)
decode_row(sb, colcnt, columns_count, col_specs, row) ==
    IF colcnt >= columns_count THEN Ret(row, sb)
    ELSE Then(decode_int_bytes_must(sb), LAMBDA value :
         Then(RowCell(value, colcnt, col_specs), LAMBDA cell :
             decode_row(cell.sb, colcnt + 1, columns_count, col_specs,
                        Append(row, cell.val))))

\* the outer loop of the Rows branch: rows.add_row(tuple(row)) for each row
RECURSIVE decode_rows(_, _, _, _, _)
decode_rows(sb, todo, columns_count, col_specs, data) ==
    IF todo <= 0 THEN Ret(data, sb)
    ELSE Then(decode_row(sb, 0, columns_count, col_specs, <<>>), LAMBDA row :
             decode_rows(row.sb, todo - 1, columns_count, col_specs,
                         Append(data, row.val)))

\* col_specs of a result: decoded unless the flags say no metadata or there
\* is no column, and None then
OptionalColSpecs(result_flags, columns_count, sb) ==
    IF ~HasFlag(result_flags, ResultFlags.NO_METADATA) /\ columns_count > 0
    THEN Then(decode_col_specs(result_flags, columns_count, sb), LAMBDA specs :
             Ret(Some(specs.val), specs.sb))
    ELSE Ret(None, sb)

\* ResultMessage.build, kind == Kind.ROWS
RowsResult_build(sb) ==
    Then(decode_int(sb), LAMBDA result_flags :
    Then(decode_int(result_flags.sb), LAMBDA columns_count :
        IF HasFlag(result_flags.val, ResultFlags.HAS_MORE_PAGES)
        THEN Raise("InternalDriverError", columns_count.sb)
        ELSE Then(OptionalColSpecs(result_flags.val, columns_count.val,
                                   columns_count.sb), LAMBDA col_specs :
             Then(decode_int(col_specs.sb), LAMBDA rows_count :
             Then(decode_rows(rows_count.sb, rows_count.val, columns_count.val,
                              col_specs.val, <<>>), LAMBDA data :
                 Ret([cls |-> "RowsResultMessage", opcode |-> Opcode.RESULT,
                      kind |-> Kind.ROWS,
                      rows |-> [columns_count |-> columns_count.val,
                                col_specs |-> col_specs.val, data |-> data.val]],
                     data.sb))))))

\* unpack(f"!{'H' * pk_count}", body.grab(2 * pk_count))
unpack_ushorts(bs) == [i \in 1..(Len(bs) \div 2) |-> bs[2 * i - 1] * 256 + bs[2 * i]]

\* pk_index: read only when pk_count > 0
PkIndex(pk_count, sb) ==
    IF pk_count > 0
    THEN Then(grab(sb, 2 * pk_count), LAMBDA g : Ret(unpack_ushorts(g.val), g.sb))
    ELSE Ret(<<>>, sb)

\* ResultMessage.build, kind == Kind.PREPARED
PreparedResult_build(sb) ==
    Then(decode_short_bytes(sb), LAMBDA statement_id :
        IF statement_id.val = <<>> THEN Raise("InternalDriverError", statement_id.sb)
        ELSE
        Then(decode_int(statement_id.sb), LAMBDA result_flags :
        Then(decode_int(result_flags.sb), LAMBDA columns_count :
        Then(decode_int(columns_count.sb), LAMBDA pk_count :
        Then(PkIndex(pk_count.val, pk_count.sb), LAMBDA pk_index :
        Then(decode_col_specs(result_flags.val, columns_count.val, pk_index.sb),
             LAMBDA col_specs :
        Then(decode_int(col_specs.sb), LAMBDA results_result_flags :
        Then(decode_int(results_result_flags.sb), LAMBDA results_columns_count :
            IF HasFlag(result_flags.val, ResultFlags.HAS_MORE_PAGES)
            THEN Raise("InternalDriverError", results_columns_count.sb)
            ELSE IF HasFlag(results_result_flags.val, ResultFlags.NO_METADATA)
                    # (results_columns_count.val = 0)
            THEN Raise("InternalDriverError", results_columns_count.sb)
            ELSE
            Then(OptionalColSpecs(results_result_flags.val, results_columns_count.val,
                                  results_columns_count.sb), LAMBDA results_col_specs :
                Ret([cls |-> "PreparedResultMessage", opcode |-> Opcode.RESULT,
                     kind |-> Kind.PREPARED,
                     statement_id |-> statement_id.val,
                     col_specs |-> col_specs.val,
                     pk_index |-> pk_index.val,
                     results_col_specs |-> results_col_specs.val],
                    results_col_specs.sb))))))))))

\* ResultMessage.build
ResultMessage_build(sb) ==
    Then(decode_int(sb), LAMBDA kind :
        IF kind.val = Kind.VOID
        THEN Ret([cls |-> "VoidResultMessage", opcode |-> Opcode.RESULT,
                  kind |-> kind.val], kind.sb)
        ELSE IF kind.val = Kind.ROWS THEN RowsResult_build(kind.sb)
        ELSE IF kind.val = Kind.SET_KEYSPACE
        THEN Then(decode_string(kind.sb), LAMBDA keyspace :
                 Ret([cls |-> "SetKeyspaceResultMessage", opcode |-> Opcode.RESULT,
                      kind |-> kind.val, keyspace |-> keyspace.val], keyspace.sb))
        ELSE IF kind.val = Kind.PREPARED THEN PreparedResult_build(kind.sb)
        ELSE IF kind.val = Kind.SCHEMA_CHANGE
        THEN Then(decode_schema_change(kind.sb), LAMBDA schema_change :
                 Ret([cls |-> "SchemaResultMessage", opcode |-> Opcode.RESULT,
                      kind |-> kind.val, schema_change |-> schema_change.val],
                     schema_change.sb))
        ELSE Raise("UnknownPayloadException", kind.sb))

\* cls.build of the factory
FactoryBuild(factory, body) ==
    IF factory = "ErrorMessage" THEN ErrorMessage_build(body)
    ELSE IF factory = "ReadyMessage" THEN ReadyMessage_build(body)
    ELSE IF factory = "SupportedMessage" THEN SupportedMessage_build(body)
    ELSE IF factory = "EventMessage" THEN EventMessage_build(body)
    ELSE ResultMessage_build(body)

\* create without its at_end test
create_unchecked(factory, body) == FactoryBuild(factory, body)

\* ResponseMessage.create: cls.build, then the body must be at its end
ResponseMessage_create(factory, body) ==
    Then(FactoryBuild(factory, body), LAMBDA msg :
        IF ~at_end(msg.sb) THEN Raise("InternalDriverError", msg.sb) ELSE msg)

\* ------------------------------------------------ v4protocol.py responses
\* The value a call returns is a record [t, v]: its Python type and value.

Result(type, value) == [t |-> type, v |-> value]

EVENTS_QUEUE_MAXSIZE == 100

\* an asyncio.Queue: the object it is (the n-th Queue made) and its items
Queue(n) == [id |-> n, items |-> <<>>]

\* V4Protocol.respond for REGISTER answered by READY: the Queue is made on
\* the first of them and kept
register_queue(events) == IF IsNone(events) THEN Some(Queue(1)) ELSE events

\* V4Protocol.respond, with the fields of the protocol object it reads and
\* writes: gives [err, val, _prepared, _events]
respond(request, response, prepared, events) ==
    LET unhandled == [err |-> "InternalDriverError", val |-> <<>>,
                      _prepared |-> prepared, _events |-> events]
        return(v) == [err |-> "", val |-> v,
                      _prepared |-> prepared, _events |-> events]
    IN  IF request.opcode = Opcode.STARTUP
        THEN IF response.opcode = Opcode.READY THEN return(Result("bool", TRUE))
             ELSE unhandled
        ELSE IF request.opcode = Opcode.QUERY
        THEN IF response.opcode # Opcode.RESULT THEN unhandled
             ELSE IF response.cls = "VoidResultMessage" THEN return(Result("bool", TRUE))
             ELSE IF response.cls = "RowsResultMessage"
             THEN return(Result("Rows", response.rows))
             ELSE IF response.cls = "SetKeyspaceResultMessage"
             THEN return(Result("str", response.keyspace))
             ELSE IF response.cls = "SchemaResultMessage"
             THEN return(Result("SchemaChange", response.schema_change))
             ELSE unhandled
        ELSE IF request.opcode = Opcode.OPTIONS
        THEN IF response.opcode = Opcode.SUPPORTED
             THEN return(Result("dict", response.options))
             ELSE unhandled
        ELSE IF request.opcode = Opcode.REGISTER
        THEN IF response.opcode = Opcode.READY
             THEN [err |-> "", val |-> Result("Queue", Val(register_queue(events)).id),
                   _prepared |-> prepared, _events |-> register_queue(events)]
             ELSE unhandled
        ELSE IF request.opcode = Opcode.PREPARE
        THEN IF response.opcode = Opcode.RESULT /\ response.cls = "PreparedResultMessage"
             THEN [err |-> "", val |-> Result("bytes", response.statement_id),
                   _prepared |-> Put(prepared, response.statement_id, response),
                   _events |-> events]
             ELSE unhandled
        ELSE IF request.opcode = Opcode.EXECUTE
        THEN IF response.opcode = Opcode.RESULT /\ response.cls = "VoidResultMessage"
             THEN return(Result("bool", TRUE))
             ELSE unhandled
        ELSE unhandled

\* the variant of the choice of a factory that falls back on ReadyMessage
factory_of_ready(opcode) ==
    IF opcode = Opcode.ERROR THEN Some("ErrorMessage")
    ELSE IF opcode = Opcode.SUPPORTED THEN Some("SupportedMessage")
    ELSE IF opcode = Opcode.RESULT THEN Some("ResultMessage")
    ELSE Some("ReadyMessage")

\* the factory build_response picks for an opcode, None for the opcodes it
\* passes over
factory_of(opcode) ==
    IF opcode = Opcode.ERROR THEN Some("ErrorMessage")
    ELSE IF opcode = Opcode.READY THEN Some("ReadyMessage")
    ELSE IF opcode = Opcode.SUPPORTED THEN Some("SupportedMessage")
    ELSE IF opcode = Opcode.RESULT THEN Some("ResultMessage")
    ELSE None

\* the end of build_response, once factory.create has run
Responded(request, opcode, response, prepared, events) ==
    IF response.err # ""
    THEN [err |-> response.err, val |-> <<>>, _prepared |-> prepared,
          _events |-> events]
    ELSE IF opcode = Opcode.ERROR
    THEN [err |-> "ServerError",
          val |-> [error_code |-> response.val.error_code,
                   error_text |-> response.val.error_text,
                   details |-> response.val.details],
          _prepared |-> prepared, _events |-> events]
    ELSE respond(request, response.val, prepared, events)

\* V4Protocol.build_response: gives [err, val, _prepared, _events]; for a
\* ServerError val holds the keyword arguments it was raised with
build_response(request, opcode_int, body, prepared, events) ==
    IF opcode_int \notin OpcodeValues
    THEN [err |-> "InternalDriverError", val |-> <<>>, _prepared |-> prepared,
          _events |-> events]
    ELSE IF IsNone(factory_of(opcode_int))
    THEN [err |-> "UnknownPayloadException", val |-> <<>>, _prepared |-> prepared,
          _events |-> events]
    ELSE Responded(request, opcode_int,
                   ResponseMessage_create(Val(factory_of(opcode_int)), SBytes(body)),
                   prepared, events)

\* ------------------------------------------------ bound values
\* A value bound to a statement is a record [t, v]: the name of its Python
\* type and its content.  v is an integer for int, bool (0 or 1), date (days
\* since 1970-01-01) and datetime (milliseconds since then); the bytes for
\* bytes, bytearray, str (UTF-8), float (IEEE double) and the addresses;
\* [int, version] for UUID; [sign, coeff, exponent] for Decimal.

\* isinstance(value, int): bool is a subclass of int
IsInt(value) == value.t \in {"int", "bool"}

\* isinstance(value, datetime.date): datetime is a subclass of date
IsDate(value) == value.t \in {"date", "datetime"}

\* value.to_bytes(length, byteorder="big", signed=True), for a value in range
RECURSIVE to_bytes_signed(_, _)
to_bytes_signed(value, length) ==
    IF length = 0 THEN <<>>
    ELSE LET low == ((value % 256) + 256) % 256
         IN  Append(to_bytes_signed((value - low) \div 256, length - 1), low)

\* n.bit_length(), for n >= 0
RECURSIVE bit_length(_)
bit_length(n) == IF n = 0 THEN 0 ELSE 1 + bit_length(n \div 2)

\* codecs.encode_varint
encode_varint(value) ==
    LET shifted == IF value < 0 THEN value + 1 ELSE value
        mag == IF shifted < 0 THEN -shifted ELSE shifted
        length == (bit_length(mag) + 8) \div 8
    IN  to_bytes_signed(value, length)

Packed(bs) == [err |-> "", val |-> bs]

PackRaise(e) == [err |-> e, val |-> <<>>]

\* pack("!l<fmt>", size, value) for the formats B (unsigned, one byte) and h,
\* l and q (signed): the length, then the value in size bytes; struct.error
\* out of the format's range
pack_sized(size, value) ==
    IF size = 1 /\ (value < 0 \/ value > 255) THEN PackRaise("struct.error")
    ELSE IF size = 2 /\ (value < -32768 \/ value > 32767) THEN PackRaise("struct.error")
    ELSE Packed(encode_int(size) \o to_bytes_signed(value, size))

\* pack("!f", value) of a double given by its eight bytes, that is zero or in
\* the range of the normal singles: OverflowError above that range
pack_float(d) ==
    LET sign == d[1] \div 128
        e == (d[1] % 128) * 16 + d[2] \div 16
        top == (d[2] % 16) * 524288 + d[3] * 2048 + d[4] * 8 + d[5] \div 32
        rest == (d[5] % 32) * 16777216 + d[6] * 65536 + d[7] * 256 + d[8]
        up == rest > 268435456 \/ (rest = 268435456 /\ top % 2 = 1)
        carry == up /\ top = 8388607
        m == IF carry THEN 0 ELSE IF up THEN top + 1 ELSE top
        se == IF e = 0 THEN 0 ELSE IF e = 2047 THEN 255
              ELSE e - 896 + (IF carry THEN 1 ELSE 0)
    IN  IF e # 2047 /\ se >= 255 THEN PackRaise("OverflowError")
        ELSE Packed(<<sign * 128 + se \div 2, (se % 2) * 128 + m \div 65536,
                      (m \div 256) % 256, m % 256>>)

BadInput == PackRaise("BadInputException")

\* An int too wide for the integers of the checker is a record [neg, mag]:
\* its sign and its magnitude, big-endian without leading zeros.
WideOf(n) == [neg |-> n < 0, mag |-> StripZeros(encode_int(IF n < 0 THEN 0 - n ELSE n))]

\* maxvalue = 60 * 60 * 24 * 10 ** 9 - 1 = 86399999999999 = 0x4E94914EFFFF
maxvalue == <<78, 148, 145, 78, 255, 255>>

\* the TIME branch after its isinstance test, for a value of at most 63 bits:
\* "if value < 0 or value >= maxvalue" is BadInput, else pack("!lq", 8, value)
encode_time(value) ==
    IF value.neg /\ value.mag # <<>> THEN BadInput
    ELSE IF MagLE(maxvalue, value.mag) THEN BadInput
    ELSE Packed(encode_int(8) \o PadLeft(value.mag, 8))

\* one turn of the loop of encode_query_parameters over zip(query_params,
\* col_specs): the bytes added to the body for value under the column type
encode_param(option_id, value) ==
    IF option_id = OptionID.INT
    THEN IF ~IsInt(value) THEN BadInput ELSE pack_sized(4, value.v)
    ELSE IF option_id = OptionID.TINYINT
    THEN IF ~IsInt(value) THEN BadInput ELSE pack_sized(1, value.v)
    ELSE IF option_id = OptionID.SMALLINT
    THEN IF ~IsInt(value) THEN BadInput ELSE pack_sized(2, value.v)
    ELSE IF option_id = OptionID.BIGINT
    THEN IF ~IsInt(value) THEN BadInput ELSE pack_sized(8, value.v)
    ELSE IF option_id = OptionID.VARINT
    THEN IF ~IsInt(value) THEN BadInput
         ELSE Packed(encode_bytes(encode_varint(value.v)))
    ELSE IF option_id = OptionID.BLOB
    THEN IF value.t \notin {"bytes", "bytearray"} THEN BadInput
         ELSE Packed(encode_bytes(value.v))
    ELSE IF option_id = OptionID.TIME
    THEN IF ~IsInt(value) THEN BadInput ELSE encode_time(WideOf(value.v))
    ELSE IF option_id = OptionID.DATE
    THEN IF ~IsDate(value) THEN BadInput
         ELSE IF value.t = "datetime" THEN PackRaise("TypeError")
         ELSE Packed(encode_int(4) \o FlipTop(encode_int(value.v)))
    ELSE IF option_id = OptionID.TIMESTAMP
    THEN IF value.t # "datetime" THEN BadInput ELSE pack_sized(8, value.v)
    ELSE IF option_id \in {OptionID.TIMEUUID, OptionID.UUID}
    THEN IF value.t # "UUID" THEN BadInput
         ELSE IF option_id = OptionID.TIMEUUID /\ value.v.version # 1 THEN BadInput
         ELSE Packed(encode_int(16) \o value.v.int)
    ELSE IF option_id = OptionID.BOOLEAN
    THEN IF value.t # "bool" THEN BadInput ELSE pack_sized(1, value.v)
    ELSE IF option_id \in {OptionID.ASCII, OptionID.VARCHAR}
    THEN IF value.t # "str" THEN BadInput ELSE Packed(encode_long_string(value.v))
    ELSE IF option_id = OptionID.DOUBLE
    THEN IF value.t # "float" THEN BadInput ELSE Packed(encode_int(8) \o value.v)
    ELSE IF option_id = OptionID.FLOAT
    THEN IF value.t # "float" THEN BadInput
         ELSE Then(pack_float(value.v), LAMBDA encoded :
                  Packed(encode_int(Len(encoded.val)) \o encoded.val))
    ELSE IF option_id = OptionID.INET
    THEN IF value.t \notin {"IPv4Address", "IPv6Address"} THEN BadInput
         ELSE IF value.v[1] >= 128 THEN PackRaise("OverflowError")
         ELSE Packed(encode_int(Len(value.v)) \o value.v)
    ELSE IF option_id = OptionID.DECIMAL
    THEN IF value.t # "Decimal" THEN BadInput
         ELSE Packed(encode_bytes(encode_int(-1 * value.v.exponent)
                                  \o encode_varint(value.v.coeff)))
    ELSE PackRaise("InternalDriverError")

\* ------------------------------------------------ messages.py requests
\* A request message is a record of the fields of its class; the parameters
\* of a call are a record of the keys the handlers read.  A dict of bound
\* values is a dict in the sense above, flagged by is_dict.

\* codecs.encode_value; a value of another type leaves value_bytes unbound
encode_value(value) ==
    IF value.t = "NoneType" THEN Packed(encode_int(-1))
    ELSE IF IsInt(value) THEN Packed(encode_bytes(encode_int(value.v)))
    ELSE IF value.t \in {"str", "bytes"} THEN Packed(encode_bytes(value.v))
    ELSE PackRaise("UnboundLocalError")

\* the loop over zip(query_params, col_specs), from position i on
RECURSIVE encode_params_from(_, _, _)
encode_params_from(query_params, col_specs, i) ==
    IF i > Len(query_params) \/ i > Len(col_specs) THEN Packed(<<>>)
    ELSE Then(encode_param(col_specs[i].option_id, query_params[i]), LAMBDA one :
         Then(encode_params_from(query_params, col_specs, i + 1), LAMBDA rest :
             Packed(one.val \o rest.val)))

\* the loop over the items of a dict of values, from position i on
RECURSIVE encode_items_from(_, _)
encode_items_from(query_params, i) ==
    IF i > Len(query_params) THEN Packed(<<>>)
    ELSE Then(encode_value(query_params[i].v), LAMBDA one :
         Then(encode_items_from(query_params, i + 1), LAMBDA rest :
             Packed(encode_string(query_params[i].k) \o one.val \o rest.val)))

\* the loop over a list of values, from position i on
RECURSIVE encode_values_from(_, _)
encode_values_from(query_params, i) ==
    IF i > Len(query_params) THEN Packed(<<>>)
    ELSE Then(encode_value(query_params[i]), LAMBDA one :
         Then(encode_values_from(query_params, i + 1), LAMBDA rest :
             Packed(one.val \o rest.val)))

\* flags of encode_query_parameters: VALUES, WITH_NAMES_FOR_VALUES,
\* SKIP_METADATA
QueryFlagsOf(query_params, is_dict, send_metadata) ==
    (IF Len(query_params) > 0 THEN 1 ELSE 0)
    + (IF Len(query_params) > 0 /\ is_dict THEN 64 ELSE 0)
    + (IF ~send_metadata THEN 2 ELSE 0)

\* the values encode_query_parameters appends after their count
EncodedValues(query_params, is_dict, col_specs) ==
    IF ~IsNone(col_specs)
    THEN IF is_dict THEN PackRaise("InternalDriverError")
         ELSE encode_params_from(query_params, Val(col_specs), 1)
    ELSE IF is_dict THEN encode_items_from(query_params, 1)
    ELSE encode_values_from(query_params, 1)

\* QueryMessage.encode_query_parameters
encode_query_parameters(query_params, is_dict, send_metadata, col_specs, consistency) ==
    IF Len(query_params) = 0
    THEN Packed(encode_short(IF IsNone(consistency) THEN 1 ELSE Val(consistency))
                \o <<QueryFlagsOf(query_params, is_dict, send_metadata)>>)
    ELSE Then(EncodedValues(query_params, is_dict, col_specs), LAMBDA values :
             Packed(encode_short(IF IsNone(consistency) THEN 1 ELSE Val(consistency))
                    \o <<QueryFlagsOf(query_params, is_dict, send_metadata)>>
                    \o encode_short(Len(query_params)) \o values.val))

\* ExecuteMessage.encode_body
ExecuteMessage_encode_body(msg) ==
    IF ~IsNone(msg.col_specs) /\ Len(Val(msg.col_specs)) # Len(msg.query_params)
    THEN PackRaise("BadInputException")
    ELSE Then(encode_query_parameters(msg.query_params, msg.is_dict,
                  msg.send_metadata, msg.col_specs, msg.consistency), LAMBDA rest :
             Packed(encode_string(msg.query_id) \o rest.val))

\* QueryMessage.encode_body
QueryMessage_encode_body(msg) ==
    Then(encode_query_parameters(msg.query_params, msg.is_dict,
             msg.send_metadata, None, msg.consistency), LAMBDA rest :
        Packed(encode_long_string(msg.query) \o rest.val))

\* PrepareMessage.encode_body
PrepareMessage_encode_body(msg) == Packed(encode_long_string(msg.query))

\* the loop of StartupMessage.encode_body over the items of the options
RECURSIVE encode_options_from(_, _)
encode_options_from(options, i) ==
    IF i > Len(options) THEN <<>>
    ELSE encode_string(options[i].k) \o encode_string(options[i].v)
         \o encode_options_from(options, i + 1)

\* StartupMessage.encode_body
StartupMessage_encode_body(msg) ==
    Packed(encode_short(Len(msg.options)) \o encode_options_from(msg.options, 1))

\* RegisterMessage.encode_body
RegisterMessage_encode_body(msg) ==
    IF \E i \in 1..Len(msg.events) : msg.events[i] \notin Events
    THEN PackRaise("TypeViolation")
    ELSE Packed(encode_strings_list(msg.events))

\* encode_body of the class of the message; RequestMessage.encode_body for
\* OptionsMessage, which has none of its own
encode_body(msg) ==
    IF msg.opcode = Opcode.EXECUTE THEN ExecuteMessage_encode_body(msg)
    ELSE IF msg.opcode = Opcode.QUERY THEN QueryMessage_encode_body(msg)
    ELSE IF msg.opcode = Opcode.PREPARE THEN PrepareMessage_encode_body(msg)
    ELSE IF msg.opcode = Opcode.STARTUP THEN StartupMessage_encode_body(msg)
    ELSE IF msg.opcode = Opcode.REGISTER THEN RegisterMessage_encode_body(msg)
    ELSE Packed(<<>>)

\* RequestMessage.encode_header: pack("!BBhBl", ...); the stream id is a
\* signed short, so the last id of the registry, maxstream, is out of range
encode_header(msg, body_length) ==
    IF msg.stream_id < 0 \/ msg.stream_id >= maxstream THEN PackRaise("struct.error")
    ELSE Packed(<<msg.version, msg.flags>> \o encode_short(msg.stream_id)
                \o <<msg.opcode>> \o encode_int(body_length))

COMPRESS_MINIMUM == 60

S_lz4 == <<108, 122, 52>>
S_snappy == <<115, 110, 97, 112, 112, 121>>
S_COMPRESSION == <<67, 79, 77, 80, 82, 69, 83, 83, 73, 79, 78>>
S_CQL_VERSION == <<67, 81, 76, 95, 86, 69, 82, 83, 73, 79, 78>>
S_3_0_0 == <<51, 46, 48, 46, 48>>

\* The block codecs are libraries outside the repository.  Their output is
\* taken to be the stored form of the data, one run of literals, which is
\* an output both formats allow for any input.

\* the length of a run of 15 literals or more as an lz4 block extends it
RECURSIVE lz4_run(_)
lz4_run(n) == IF n >= 255 THEN <<255>> \o lz4_run(n - 255) ELSE <<n>>

\* lz4.block.compress(x)[4:]: the block without the length the library
\* puts before it
lz4_block(x) ==
    IF Len(x) < 15 THEN <<Len(x) * 16>> \o x
    ELSE <<240>> \o lz4_run(Len(x) - 15) \o x

\* the length snappy puts before its elements
RECURSIVE uvarint(_)
uvarint(n) ==
    IF n < 128 THEN <<n>> ELSE <<128 + (n % 128)>> \o uvarint(n \div 128)

\* snappy.compress(x), for at most 256 bytes
snappy_compress(x) ==
    IF x = <<>> THEN <<0>>
    ELSE IF Len(x) <= 60 THEN uvarint(Len(x)) \o <<(Len(x) - 1) * 4>> \o x
    ELSE uvarint(Len(x)) \o <<240, Len(x) - 1>> \o x

\* the compress functions PKZip.__init__ builds: for lz4 the length of the
\* data, big-endian, goes before the block
PKZip_compress(data, algo) ==
    IF algo = S_lz4 THEN encode_int(Len(data)) \o lz4_block(data)
    ELSE snappy_compress(data)

\* RequestMessage.__bytes__ from encode_header on
BytesHeader(header, body) ==
    IF header.err # "" THEN header ELSE Packed(header.val \o body)

\* the variant of RequestMessage.__bytes__ without "if self.compress is not
\* None and len(body) >= COMPRESS_MINIMUM"
RequestMessage_bytes_plain(msg) ==
    Then(encode_body(msg), LAMBDA body :
        BytesHeader(encode_header(msg, Len(body.val)), body.val))

\* RequestMessage.__bytes__ where the body is compressed
BytesCompressed(msg, body) ==
    BytesHeader(encode_header([msg EXCEPT !.flags = 2 * (@ \div 2) + 1], Len(body)),
                body)

\* RequestMessage.__bytes__
RequestMessage_bytes(msg) ==
    Then(encode_body(msg), LAMBDA body :
        IF ~IsNone(msg.compress) /\ Len(body.val) >= COMPRESS_MINIMUM
        THEN BytesCompressed(msg, PKZip_compress(body.val, Val(msg.compress)))
        ELSE BytesHeader(encode_header(msg, Len(body.val)), body.val))

\* ------------------------------------------------ v4protocol.py requests

\* the message a handler of V4Protocol builds: the fields of the classes of
\* messages.py, those a class lacks left empty
Message(opcode, stream_id, params, col_specs) ==
    [opcode |-> opcode, version |-> 4, flags |-> 0, stream_id |-> stream_id,
     query |-> params.query, query_id |-> params.statement_id,
     query_params |-> IF IsNone(params.query_params) THEN <<>>
                      ELSE Val(params.query_params),
     is_dict |-> params.is_dict, send_metadata |-> params.send_metadata,
     col_specs |-> col_specs, consistency |-> params.consistency,
     options |-> params.options, events |-> params.events, compress |-> None]

\* a message built with compress=self.compress
Compressing(msg, compressor) == [msg EXCEPT !.compress = compressor]

\* the variant of V4Protocol.execute that does not consult the cache
execute_unchecked(stream_id, params, prepared, compressor) ==
    [err |-> "",
     val |-> Compressing(Message(Opcode.EXECUTE, stream_id, params,
                                 IF Has(prepared, params.statement_id)
                                 THEN Some(Get(prepared, params.statement_id).col_specs)
                                 ELSE None),
                         compressor)]

\* V4Protocol.execute: the statement must be in the cache of prepared ones
execute(stream_id, params, prepared, compressor) ==
    IF ~Has(prepared, params.statement_id)
    THEN [err |-> "InternalDriverError", val |-> <<>>]
    ELSE [err |-> "",
          val |-> Compressing(Message(Opcode.EXECUTE, stream_id, params,
                                      Some(Get(prepared, params.statement_id).col_specs)),
                              compressor)]

\* the handlers options, startup, query, register, prepare and execute of
\* V4Protocol, chosen by the opcode of the message they build; query,
\* prepare and execute hand the compress function of the protocol on, the
\* others leave the message without one
request_handler(opcode, stream_id, params, prepared, compressor) ==
    IF opcode = Opcode.EXECUTE THEN execute(stream_id, params, prepared, compressor)
    ELSE IF opcode \in {Opcode.QUERY, Opcode.PREPARE}
    THEN [err |-> "",
          val |-> Compressing(Message(opcode, stream_id, params, None), compressor)]
    ELSE [err |-> "", val |-> Message(opcode, stream_id, params, None)]

\* ------------------------------------------------ dispatcher.py registry
\* A slot of Dispatcher._streams holds None or the record [request, event]
\* (the response handler of every call is build_response).

\* the while loop of Dispatcher._new_stream_id
RECURSIVE new_stream_id_scan(_, _)
new_stream_id_scan(next_id, live) ==
    IF next_id > maxstream
    THEN IF 0 \notin live THEN 0 ELSE new_stream_id_scan(1, live)
    ELSE IF next_id \notin live THEN next_id
    ELSE new_stream_id_scan(next_id + 1, live)

\* the end of Dispatcher._new_stream_id: the slot is entered empty, "store
\* will come in later"
Allocate(strs, next_id) ==
    [err |-> "", id |-> next_id, streams |-> Put(strs, next_id, None),
     last |-> Some(next_id)]

\* Dispatcher._new_stream_id
_new_stream_id(strs, last_id) ==
    IF IsNone(last_id)
    THEN Allocate(strs, 0)
    ELSE IF Len(strs) > maxstream
    THEN [err |-> "MaximumStreamsException", id |-> EVENT_STREAM_ID,
          streams |-> strs, last |-> last_id]
    ELSE Allocate(strs, new_stream_id_scan(Val(last_id) + 1, Keys(strs)))

\* Dispatcher._update_stream_id
_update_stream_id(strs, stream_id, store) ==
    IF ~Has(strs, stream_id) THEN [err |-> "InternalDriverError", streams |-> strs]
    ELSE IF IsNone(store) THEN [err |-> "InternalDriverError", streams |-> strs]
    ELSE [err |-> "", streams |-> Put(strs, stream_id, store)]

\* the variant of Dispatcher._rm_stream_id that leaves the slot in place
_rm_stream_id_keep(strs, stream_id) ==
    IF ~Has(strs, stream_id)
    THEN [err |-> "InternalDriverError", store |-> None, streams |-> strs]
    ELSE IF IsNone(Get(strs, stream_id))
    THEN [err |-> "AssertionError", store |-> None, streams |-> strs]
    ELSE [err |-> "", store |-> Get(strs, stream_id), streams |-> strs]

\* Dispatcher._rm_stream_id: pop, then assert the popped store is not None
_rm_stream_id(strs, stream_id) ==
    IF ~Has(strs, stream_id)
    THEN [err |-> "InternalDriverError", store |-> None, streams |-> strs]
    ELSE IF IsNone(Get(strs, stream_id))
    THEN [err |-> "AssertionError", store |-> None, streams |-> Del(strs, stream_id)]
    ELSE [err |-> "", store |-> Get(strs, stream_id), streams |-> Del(strs, stream_id)]

\* what Dispatcher.send leaves behind: the exception raised ("" for none),
\* the registry afterwards and the bytes handed to the writer, if any
SendOut(e, alloc, strs, written) ==
    [err |-> e, streams |-> strs, last |-> alloc.last, stream_id |-> alloc.id,
     written |-> written]

\* Dispatcher.send from self._writer.write(bytes(request)) on
SendWrite(alloc, strs, frame) ==
    IF frame.err # "" THEN SendOut(frame.err, alloc, strs, None)
    ELSE SendOut("", alloc, strs, Some(frame.val))

\* Dispatcher.send from _update_stream_id on
SendStore(alloc, upd, request, writer) ==
    IF upd.err # "" THEN SendOut(upd.err, alloc, upd.streams, None)
    ELSE IF IsNone(writer) THEN SendOut("AssertionError", alloc, upd.streams, None)
    ELSE SendWrite(alloc, upd.streams, RequestMessage_bytes(request))

\* Dispatcher.send from request_handler on
SendRequest(alloc, request, writer, event) ==
    IF request.err # "" THEN SendOut(request.err, alloc, alloc.streams, None)
    ELSE SendStore(alloc,
                   _update_stream_id(alloc.streams, alloc.id,
                                     Some([request |-> request.val, event |-> event])),
                   request.val, writer)

\* Dispatcher.send from _new_stream_id on
SendAllocate(alloc, prepared, compressor, writer, opcode, params, event) ==
    IF alloc.err # "" THEN SendOut(alloc.err, alloc, alloc.streams, None)
    ELSE SendRequest(alloc,
                     request_handler(opcode, alloc.id, params, prepared, compressor),
                     writer, event)

\* Dispatcher.send after its connect
send(strs, last_id, prepared, compressor, writer, opcode, params, event) ==
    SendAllocate(_new_stream_id(strs, last_id), prepared, compressor, writer, opcode,
                 params, event)

\* ------------------------------------------------ state
\* The fields of the Dispatcher (_streams, _last_stream_id, _data,
\* _connected, _running, _reader, _writer, _read_task) and of its V4Protocol
\* (_prepared, _events), under the names of the source.  _streams and
\* _last_stream_id are also the fields of a core.Streams, which has the same
\* two.  Around them: the sockets opened (socks), the listener tasks started
\* (tasks), the events that are set (evset) and the calls made (calls).  inp
\* and out hold the input and the outcome of the operation last applied.

VARIABLES _streams, _last_stream_id, _data, _connected, _running, _reader,
          _writer, _read_task, _prepared, _events, socks, tasks, evset, calls,
          inp, out, _conn, _is_ready_event, _paged, compress, decompress, ops

vars == <<_streams, _last_stream_id, _data, _connected, _running, _reader,
          _writer, _read_task, _prepared, _events, socks, tasks, evset, calls,
          inp, out, _conn, _is_ready_event, _paged, compress, decompress, ops>>

\* the Connection of a Client (_conn), the event of the Client
\* (_is_ready_event) and the requests it keeps by paging state (_paged),
\* the compress function of the V4Protocol and the decompress function of
\* the Dispatcher, None or the name of an algorithm, and the operations
\* under way on the Client (ops)
client_vars == <<_conn, _is_ready_event, _paged, compress, decompress, ops>>

dispatcher_vars == <<_data, _connected, _running, _reader, _writer, _read_task>>

protocol_vars == <<_prepared, _events>>

env_vars == <<socks, tasks, evset, calls>>

\* Dispatcher.__init__ and V4Protocol.__init__, nothing opened or called yet
InitObjects ==
    /\ _streams = <<>>
    /\ _last_stream_id = None
    /\ _data = <<>>
    /\ _connected = FALSE
    /\ _running = FALSE
    /\ _reader = None
    /\ _writer = None
    /\ _read_task = None
    /\ _prepared = <<>>
    /\ _events = None
    /\ socks = <<>>
    /\ tasks = <<>>
    /\ evset = {}
    /\ calls = <<>>
    /\ compress = None
    /\ decompress = None

\* Connection.__init__ with the default options, CQL_VERSION alone
NewConnection(no_compress) ==
    [no_compress |-> no_compress, _compress |-> None, _decompress |-> None,
     _is_ready |-> FALSE, _in_startup |-> FALSE, _is_connected |-> FALSE,
     _options |-> <<[k |-> S_CQL_VERSION, v |-> S_3_0_0]>>,
     supported_options |-> None, _dispatcher |-> FALSE]

\* Client.__init__, where no Client is at work
InitIdle ==
    /\ _conn = NewConnection(FALSE)
    /\ _is_ready_event = FALSE
    /\ _paged = <<>>
    /\ ops = <<>>

\* ------------------------------------------------ the registry alone
\* A registry driven by every sequence of allocate, attach and remove:
\* inp names the class under test, out records the last allocation.

\* the stores attached to a slot
Stores == {1}

\* the stores update is called with: a store, or None
StoreInputs == {None} \cup {Some(store) : store \in Stores}

InitStreams ==
    /\ InitObjects
    /\ InitIdle
    /\ inp \in {"Streams", "Dispatcher"}
    /\ out = [op |-> "init", err |-> "", id |-> EVENT_STREAM_ID, live |-> {},
              last |-> None, arg |-> EVENT_STREAM_ID, store |-> None]

Allocated(res) ==
    /\ _streams' = res.streams
    /\ _last_stream_id' = res.last
    /\ out' = [op |-> "create", err |-> res.err, id |-> res.id,
               live |-> Keys(_streams), last |-> _last_stream_id,
               arg |-> EVENT_STREAM_ID, store |-> None]
    /\ UNCHANGED <<client_vars, dispatcher_vars, protocol_vars, env_vars, inp>>

Changed(op, stream_id, store, res) ==
    /\ _streams' = res.streams
    /\ out' = [out EXCEPT !.op = op, !.err = res.err, !.arg = stream_id,
                          !.store = store]
    /\ UNCHANGED <<client_vars, _last_stream_id, dispatcher_vars, protocol_vars, env_vars, inp>>

\* Streams.create
StreamsCreate ==
    /\ inp = "Streams"
    /\ Allocated(Streams_create(_streams, _last_stream_id))

\* Streams.update
StreamsUpdate ==
    /\ inp = "Streams"
    /\ \E stream_id \in 0..maxstream, store \in StoreInputs :
           Changed("update", stream_id, store,
                   Streams_update(_streams, stream_id, store))

\* Streams.remove
StreamsRemove ==
    /\ inp = "Streams"
    /\ \E stream_id \in 0..maxstream :
           Changed("remove", stream_id, None, Streams_remove(_streams, stream_id))

\* Dispatcher._new_stream_id
DispatcherNewStreamId ==
    /\ inp = "Dispatcher"
    /\ Allocated(_new_stream_id(_streams, _last_stream_id))

\* Dispatcher._update_stream_id
DispatcherUpdateStreamId ==
    /\ inp = "Dispatcher"
    /\ \E stream_id \in 0..maxstream, store \in StoreInputs :
           Changed("update", stream_id, store,
                   _update_stream_id(_streams, stream_id, store))

\* Dispatcher._rm_stream_id
DispatcherRmStreamId ==
    /\ inp = "Dispatcher"
    /\ \E stream_id \in 0..maxstream :
           Changed("remove", stream_id, None, _rm_stream_id(_streams, stream_id))

NextStreams ==
    \/ StreamsCreate
    \/ StreamsUpdate
    \/ StreamsRemove
    \/ DispatcherNewStreamId
    \/ DispatcherUpdateStreamId
    \/ DispatcherRmStreamId

SpecStreams == InitStreams /\ [][NextStreams]_vars

\* C1: in every state reached by allocate, attach and remove in any order,
\* the id an allocation has just issued was not live when it was issued, is
\* not -1 (the event stream id) and lies in 0..maxstream, and no id is in the
\* registry twice.
C1_AllocateNeverLive ==
    /\ Cardinality(Keys(_streams)) = Len(_streams)
    /\ (out.op = "create" /\ out.err = "") =>
           /\ out.id \notin out.live
           /\ out.id # EVENT_STREAM_ID
           /\ out.id \in 0..maxstream

\* C1 witness: an allocation that had to step over a live id: the id after
\* the last one issued was still live
C1_Witness ==
    /\ out.op = "create"
    /\ out.err = ""
    /\ out.id # EVENT_STREAM_ID
    /\ ~IsNone(out.last)
    /\ (IF Val(out.last) + 1 > maxstream THEN 0 ELSE Val(out.last) + 1) \in out.live
    /\ out.id \notin out.live

\* C15: every id the allocator issues fits the signed 16-bit stream field of
\* the frame header: it lies in [0, 2^15 - 1], here [0, maxstream - 1].
C15_IdFitsHeader ==
    (out.op = "create" /\ out.err = "") => out.id \in 0..(maxstream - 1)

\* C16: with 2^15 ids live (here maxstream of them), the next allocation
\* raises MaximumStreamsException.
C16_FullRegistryFails ==
    (out.op = "create" /\ Cardinality(out.live) = maxstream) =>
        out.err = "MaximumStreamsException"

\* ------------------------------------------------ the server
\* What the peer puts on the wire, laid out as the comments of the decoders
\* of messages.py state the protocol: a frame is [opcode, body, sent], sent
\* telling what the server meant by it.

S_ks == <<107, 115>>
S_tbl == <<116, 98, 108>>
S_col == <<99, 111, 108>>
S_int == <<105, 110, 116>>
S_msg == <<98, 111, 111, 109>>

\* the body of an ERROR of a code: <cl><received><blockfor><numfailures>
\* <write_type> for WRITE_FAILURE, the layout of the decoder for the others
ErrorWireLayout(error_code) ==
    IF error_code = ErrorCode.WRITE_FAILURE
    THEN << <<"consistency_level", "consistency">>, <<"received", "int">>,
            <<"block_for", "int">>, <<"num_failures", "int">>,
            <<"write_type", "write_type">> >>
    ELSE ErrorDetailsLayout(error_code)

\* a value of each kind of detail
SampleDetail(how) ==
    IF how = "consistency" THEN 1
    ELSE IF how = "int" THEN 2
    ELSE IF how = "byte" THEN 1
    ELSE IF how = "string" THEN S_ks
    ELSE IF how = "strings_list" THEN <<S_int>>
    ELSE IF how = "short_bytes" THEN <<1>>
    ELSE S_SIMPLE

encode_detail(how, value) ==
    IF how = "consistency" THEN encode_short(value)
    ELSE IF how = "int" THEN encode_int(value)
    ELSE IF how = "byte" THEN <<value>>
    ELSE IF how = "strings_list" THEN encode_strings_list(value)
    ELSE encode_string(value)

\* the details the server reports with an error of a code, as a dict
ServerDetails(error_code) ==
    LET layout == ErrorWireLayout(error_code)
    IN  [i \in 1..Len(layout) |->
            [k |-> layout[i][1], v |-> SampleDetail(layout[i][2])]]

RECURSIVE encode_details_from(_, _)
encode_details_from(layout, i) ==
    IF i > Len(layout) THEN <<>>
    ELSE encode_detail(layout[i][2], SampleDetail(layout[i][2]))
         \o encode_details_from(layout, i + 1)

NoSent == [variant |-> "", error_code |-> 0, error_text |-> <<>>, details |-> <<>>]

Frame(opcode, body, variant) ==
    [opcode |-> opcode, body |-> body, sent |-> [NoSent EXCEPT !.variant = variant]]

ErrorFrame(error_code) ==
    [opcode |-> Opcode.ERROR,
     body |-> encode_int(error_code) \o encode_string(S_msg)
              \o encode_details_from(ErrorWireLayout(error_code), 1),
     sent |-> [variant |-> "Error", error_code |-> error_code,
               error_text |-> S_msg, details |-> ServerDetails(error_code)]]

\* <flags = global table spec><columns_count = 1><ks><table><name><type>
ColumnMetadata(option_id) ==
    encode_int(ResultFlags.GLOBAL_TABLES_SPEC) \o encode_int(1)
    \o encode_string(S_ks) \o encode_string(S_tbl)
    \o encode_string(S_col) \o encode_short(option_id)

\* a RESULT of kind Rows: one column of the type, one row with the cell
RowsFrame(option_id, cell) ==
    Frame(Opcode.RESULT,
          encode_int(Kind.ROWS) \o ColumnMetadata(option_id)
          \o encode_int(1) \o encode_bytes(cell), "Rows")

\* the columns of a Prepared result under a global table spec: a name and a
\* type each
RECURSIVE PreparedColumns(_, _)
PreparedColumns(option_ids, i) ==
    IF i > Len(option_ids) THEN <<>>
    ELSE encode_string(S_col) \o encode_short(option_ids[i])
         \o PreparedColumns(option_ids, i + 1)

\* a RESULT of kind Prepared: the id, the bound columns of the types and no
\* primary key index, then result metadata without columns
PreparedFrameOf(statement_id, option_ids) ==
    Frame(Opcode.RESULT,
          encode_int(Kind.PREPARED) \o encode_string(statement_id)
          \o encode_int(ResultFlags.GLOBAL_TABLES_SPEC)
          \o encode_int(Len(option_ids)) \o encode_int(0)
          \o encode_string(S_ks) \o encode_string(S_tbl)
          \o PreparedColumns(option_ids, 1)
          \o encode_int(ResultFlags.NO_METADATA) \o encode_int(0), "Prepared")

PreparedFrame(statement_id, option_id) ==
    PreparedFrameOf(statement_id, <<option_id>>)

VoidFrame == Frame(Opcode.RESULT, encode_int(Kind.VOID), "Void")

SetKeyspaceFrame ==
    Frame(Opcode.RESULT, encode_int(Kind.SET_KEYSPACE) \o encode_string(S_ks),
          "SetKeyspace")

SchemaChangeFrame ==
    Frame(Opcode.RESULT,
          encode_int(Kind.SCHEMA_CHANGE) \o encode_string(S_CREATED)
          \o encode_string(S_KEYSPACE) \o encode_string(S_ks), "SchemaChange")

ReadyFrame == Frame(Opcode.READY, <<>>, "Ready")

SupportedFrame ==
    Frame(Opcode.SUPPORTED,
          encode_short(1) \o encode_string(S_COMPRESSION)
          \o encode_strings_list(<<S_lz4>>), "Supported")

\* a RESULT of a kind the protocol version does not define
UnknownKindFrame == Frame(Opcode.RESULT, encode_int(9), "UnknownKind")

\* a response of an opcode build_response has no factory for
UndecodedFrame(opcode) == Frame(opcode, encode_string(S_msg), "Undecoded")

\* ------------------------------------------------ responses alone
\* build_response applied once to each pairing of a request with a frame of
\* the server: inp is the pairing, out what the call gave.

RequestOpcodes ==
    {Opcode.STARTUP, Opcode.OPTIONS, Opcode.QUERY, Opcode.PREPARE, Opcode.EXECUTE,
     Opcode.REGISTER}

ErrorCodeList ==
    <<0, 10, 256, 4096, 4097, 4098, 4099, 4352, 4608, 4864, 5120, 5376, 8192, 8448,
      8704, 8960, 9216, 9472>>

UndecodedList == <<3, 12, 14, 16, 7>>

ProtoFrames ==
    [i \in 1..Len(ErrorCodeList) |-> ErrorFrame(ErrorCodeList[i])]
    \o [i \in 1..Len(UndecodedList) |-> UndecodedFrame(UndecodedList[i])]
    \o <<VoidFrame, RowsFrame(OptionID.INT, <<0, 0, 0, 7>>), SetKeyspaceFrame,
         SchemaChangeFrame, PreparedFrame(<<1>>, OptionID.INT), ReadyFrame,
         SupportedFrame, UnknownKindFrame>>

\* the parameters of a call that binds nothing
NoParams ==
    [query |-> <<113>>, statement_id |-> <<>>, query_params |-> None,
     is_dict |-> FALSE, send_metadata |-> FALSE, consistency |-> None,
     options |-> <<>>, events |-> <<>>]

InitProto ==
    /\ InitObjects
    /\ InitIdle
    /\ inp \in [request : RequestOpcodes, frame : 1..Len(ProtoFrames)]
    /\ out = [done |-> FALSE, err |-> "", val |-> <<>>]

\* V4Protocol.build_response, called as the response handler of the request
BuildResponse ==
    /\ ~out.done
    /\ LET frame == ProtoFrames[inp.frame]
           r == build_response(Message(inp.request, 0, NoParams, None),
                               frame.opcode, frame.body, _prepared, _events)
       IN  /\ out' = [done |-> TRUE, err |-> r.err, val |-> r.val]
           /\ _prepared' = r._prepared
           /\ _events' = r._events
    /\ UNCHANGED <<client_vars, _streams, _last_stream_id, dispatcher_vars, env_vars, inp>>

NextProto == BuildResponse

SpecProto == InitProto /\ [][NextProto]_vars

Sent == ProtoFrames[inp.frame].sent

\* C6: whatever the request, a response of opcode ERROR comes out as a
\* ServerError that carries the code, the message and the details the
\* server sent, unchanged.
C6_ErrorIsServerError ==
    (out.done /\ Sent.variant = "Error") =>
        /\ out.err = "ServerError"
        /\ out.val.error_code = Sent.error_code
        /\ out.val.error_text = Sent.error_text
        /\ out.val.details = Sent.details

\* the pairings the specification lists as yielding a result
Listed ==
    \/ inp.request = Opcode.STARTUP /\ Sent.variant = "Ready"
    \/ inp.request = Opcode.OPTIONS /\ Sent.variant = "Supported"
    \/ inp.request = Opcode.QUERY /\ ProtoFrames[inp.frame].opcode = Opcode.RESULT
    \/ inp.request = Opcode.PREPARE /\ Sent.variant = "Prepared"
    \/ inp.request = Opcode.EXECUTE /\ ProtoFrames[inp.frame].opcode = Opcode.RESULT
    \/ inp.request = Opcode.REGISTER /\ Sent.variant = "Ready"

\* the type of the result each listed pairing yields, EXECUTE aside
Yields ==
    /\ (inp.request = Opcode.STARTUP /\ Sent.variant = "Ready")
           => (out.err = "" /\ out.val = Result("bool", TRUE))
    /\ (inp.request = Opcode.OPTIONS /\ Sent.variant = "Supported")
           => (out.err = "" /\ out.val.t = "dict")
    /\ (inp.request = Opcode.QUERY /\ Sent.variant = "Void")
           => (out.err = "" /\ out.val = Result("bool", TRUE))
    /\ (inp.request = Opcode.QUERY /\ Sent.variant = "Rows")
           => (out.err = "" /\ out.val.t = "Rows")
    /\ (inp.request = Opcode.QUERY /\ Sent.variant = "SetKeyspace")
           => (out.err = "" /\ out.val = Result("str", S_ks))
    /\ (inp.request = Opcode.QUERY /\ Sent.variant = "SchemaChange")
           => (out.err = "" /\ out.val.t = "SchemaChange")
    /\ (inp.request = Opcode.PREPARE /\ Sent.variant = "Prepared")
           => (out.err = "" /\ out.val = Result("bytes", <<1>>))
    /\ (inp.request = Opcode.REGISTER /\ Sent.variant = "Ready")
           => (out.err = "" /\ out.val.t = "Queue")

\* C7 as stated: a result comes only from a listed pairing, and every other
\* pairing of a request with a response that is not an ERROR is an
\* InternalDriverError.
C7_OtherPairingsInternal ==
    out.done =>
        /\ out.err = "" => Listed
        /\ (~Listed /\ Sent.variant # "Error") => out.err = "InternalDriverError"

\* C7 amended: a result comes only from a listed pairing, the listed
\* pairings other than those of EXECUTE yield the result stated; every other
\* pairing with a response that has a decoder (READY, SUPPORTED, RESULT of a
\* known kind) is an InternalDriverError; a response of an opcode without a
\* decoder, or a RESULT of an unknown kind, is an UnknownPayloadException
\* whatever the request.
C7_PairingsAmended ==
    out.done =>
        /\ out.err = "" => Listed
        /\ Yields
        /\ (~Listed /\ Sent.variant \notin {"Error", "Undecoded", "UnknownKind"})
               => out.err = "InternalDriverError"
        /\ Sent.variant \in {"Undecoded", "UnknownKind"}
               => out.err = "UnknownPayloadException"

\* C7 witness: a QUERY answered by a response of an opcode without a
\* decoder has been raised as UnknownPayloadException
C7_Witness ==
    /\ out.done
    /\ inp.request = Opcode.QUERY
    /\ Sent.variant = "Undecoded"
    /\ out.err = "UnknownPayloadException"

\* C8: an EXECUTE answered by a RESULT of kind Void, Rows, SetKeyspace or
\* SchemaChange yields what a QUERY answered by the same frame yields.
C8_ExecuteAsQuery ==
    (out.done /\ inp.request = Opcode.EXECUTE
        /\ Sent.variant \in {"Void", "Rows", "SetKeyspace", "SchemaChange"}) =>
        LET frame == ProtoFrames[inp.frame]
            q == build_response(Message(Opcode.QUERY, 0, NoParams, None),
                                frame.opcode, frame.body, <<>>, None)
        IN  /\ q.err = ""
            /\ out.err = ""
            /\ out.val = q.val

\* ------------------------------------------------ dispatcher.py reads
\* What the listener does with a frame it has read, and what a caller does
\* with the event it waited for.  An event is named by the number of the
\* call it was created for; _data maps an event to [err, val], the value the
\* response handler returned (err "") or the exception it raised.

Flags == [COMPRESSION |-> 1, TRACING |-> 2, CUSTOM_PAYLOAD |-> 4, WARNING |-> 8]

SERVER_SENT == 128

\* V4Protocol.version
V4Protocol_version == 4

\* ~SERVER_SENT & version in server role, SERVER_SENT | version otherwise
expected_version(version, server_role) ==
    IF server_role
    THEN version - SERVER_SENT * ((version \div SERVER_SENT) % 2)
    ELSE version + SERVER_SENT * (1 - ((version \div SERVER_SENT) % 2))

\* what decode_header gives or raises
Header(e, header) ==
    IF e # ""
    THEN [err |-> e, version |-> 0, flags |-> 0, stream |-> 0, opcode |-> 0,
          length |-> 0]
    ELSE [err |-> "", version |-> header[1], flags |-> header[2],
          stream |-> SignedBE(SubSeq(header, 3, 4)), opcode |-> header[5],
          length |-> SignedBE(SubSeq(header, 6, 9))]

\* decode_header with the version of a client expected in either role
decode_header_client(header, version, server_role) ==
    IF Len(header) # 9 THEN Header("struct.error", header)
    ELSE IF header[1] # expected_version(version, FALSE)
    THEN Header("VersionMismatchException", header)
    ELSE Header("", header)

\* Protocol.decode_header of a protocol object with the version and role:
\* unpack "!BBhBl", which takes 9 bytes, then the version test
Protocol_decode_header(header, version, server_role) ==
    IF Len(header) # 9 THEN Header("struct.error", header)
    ELSE IF header[1] # expected_version(version, server_role)
    THEN Header("VersionMismatchException", header)
    ELSE Header("", header)

\* decode_header of the V4Protocol a Connection makes (server_role False)
decode_header(header) == Protocol_decode_header(header, V4Protocol_version, FALSE)

\* what Dispatcher._receive leaves behind: the exception it raised ("" for
\* none), the registry, the data, the fields of the protocol, and the event
\* it has set, if any
ReceiveOut(e, strs, data, prepared, events, set) ==
    [err |-> e, streams |-> strs, data |-> data, _prepared |-> prepared,
     _events |-> events, set |-> set]

\* Dispatcher._receive from the try around response_handler on: only a
\* ServerError or an InternalDriverError is stored against the event; any
\* other exception leaves _receive with the event unset
ReceiveStore(event, resp, strs, data) ==
    IF resp.err = "" \/ IsServerError(resp.err) \/ IsInternalDriverError(resp.err)
    THEN ReceiveOut("", strs, Put(data, event, [err |-> resp.err, val |-> resp.val]),
                    resp._prepared, resp._events, {event})
    ELSE ReceiveOut(resp.err, strs, data, resp._prepared, resp._events, {})

\* Dispatcher._receive from _rm_stream_id on
ReceiveSlot(h, rm, data, prepared, events, body) ==
    IF rm.err # "" THEN ReceiveOut(rm.err, rm.streams, data, prepared, events, {})
    ELSE ReceiveStore(Val(rm.store).event,
                      build_response(Val(rm.store).request, h.opcode, body,
                                     prepared, events),
                      rm.streams, data)

\* what V4Protocol.event_handler leaves behind
Handled(e, events) == [err |-> e, _events |-> events]

\* event_handler with a put that never finds the queue full
event_handler_unbounded(events, body) ==
    IF IsNone(events) THEN Handled("InternalDriverError", events)
    ELSE IF ResponseMessage_create("EventMessage", SBytes(body)).err # ""
    THEN Handled(ResponseMessage_create("EventMessage", SBytes(body)).err, events)
    ELSE Handled("", Some([Val(events) EXCEPT !.items =
             Append(@, ResponseMessage_create("EventMessage", SBytes(body)).val.event)]))

\* V4Protocol.event_handler: it raises when nothing was registered, when
\* EventMessage.create raises and when put_nowait finds the queue full;
\* otherwise msg.event is put on the queue
event_handler(events, body) ==
    IF IsNone(events) THEN Handled("InternalDriverError", events)
    ELSE IF ResponseMessage_create("EventMessage", SBytes(body)).err # ""
    THEN Handled(ResponseMessage_create("EventMessage", SBytes(body)).err, events)
    ELSE IF Len(Val(events).items) >= EVENTS_QUEUE_MAXSIZE
    THEN Handled("InternalDriverError", events)
    ELSE Handled("", Some([Val(events) EXCEPT !.items =
             Append(@, ResponseMessage_create("EventMessage", SBytes(body)).val.event)]))

\* Dispatcher._receive for a frame of the event stream: event_handler is not
\* a coroutine function, and the None it returns cannot be awaited
ReceiveEvent(handled, strs, data, prepared) ==
    ReceiveOut(IF handled.err = "" THEN "TypeError" ELSE handled.err, strs, data,
               prepared, handled._events, {})

\* Dispatcher._receive after decode_header; no decompress is ever set
ReceiveHeader(h, strs, data, prepared, events, body) ==
    IF h.err # "" THEN ReceiveOut(h.err, strs, data, prepared, events, {})
    ELSE IF HasFlag(h.flags, Flags.COMPRESSION)
    THEN ReceiveOut("AssertionError", strs, data, prepared, events, {})
    ELSE IF h.stream = EVENT_STREAM_ID
    THEN ReceiveEvent(event_handler(events, body), strs, data, prepared)
    ELSE ReceiveSlot(h, _rm_stream_id(strs, h.stream), data, prepared, events, body)

\* Dispatcher._receive once read(9) has given head and read(length) body
_receive(strs, data, prepared, events, head, body) ==
    ReceiveHeader(decode_header(head), strs, data, prepared, events, body)

\* Dispatcher.retrieve: pop the data of the event; raise it if it is a
\* ServerError or an InternalDriverError, return it otherwise
retrieve(data, event) ==
    IF ~Has(data, event)
    THEN [err |-> "InternalDriverError", val |-> <<>>, data |-> data]
    ELSE [err |-> Get(data, event).err, val |-> Get(data, event).val,
          data |-> Del(data, event)]

\* the loop of _listener under except ConnectionDroppedError, over the ids
\* _list_stream_ids gave, from position i on: an exception of _rm_stream_id
\* leaves the handler there
RECURSIVE end_streams(_, _, _, _, _)
end_streams(ids, i, strs, data, set) ==
    IF i > Len(ids) THEN [err |-> "", streams |-> strs, data |-> data, set |-> set]
    ELSE IF ~Has(strs, ids[i])
    THEN [err |-> "InternalDriverError", streams |-> strs, data |-> data, set |-> set]
    ELSE IF IsNone(Get(strs, ids[i]))
    THEN [err |-> "AssertionError", streams |-> _rm_stream_id(strs, ids[i]).streams,
          data |-> data, set |-> set]
    ELSE end_streams(ids, i + 1, _rm_stream_id(strs, ids[i]).streams,
                     Put(data, Val(Get(strs, ids[i])).event,
                         [err |-> "ConnectionDroppedError", val |-> <<>>]),
                     set \cup {Val(Get(strs, ids[i])).event})

\* ------------------------------------------------ the dispatcher at work
\* One Dispatcher with its V4Protocol, the callers of Connection.make_call,
\* the listener tasks _connect starts and the server behind the sockets.  A
\* step is the code a coroutine runs between two of its awaits.

\* the calls made over the life of the dispatcher
MaxCalls == 2

\* the connections opened over the life of the dispatcher
MaxConn == 1

\* the calls a caller makes: a QUERY, a PREPARE and an EXECUTE of the
\* statement the server gives the id 1 when it prepares it
CallInputs ==
    <<[opcode |-> Opcode.QUERY, params |-> NoParams],
      [opcode |-> Opcode.PREPARE, params |-> NoParams],
      [opcode |-> Opcode.EXECUTE,
       params |-> [NoParams EXCEPT !.statement_id = <<1>>,
                                   !.query_params = Some(<<[t |-> "int", v |-> 7]>>)]]>>

\* the frames the server answers with: Void, Rows with a TIMESTAMP cell of
\* one millisecond before 1970, Prepared with the statement id 1, and an
\* ERROR of code 0x2200 (Invalid)
AnswerFrames ==
    <<VoidFrame,
      RowsFrame(OptionID.TIMESTAMP, <<255, 255, 255, 255, 255, 255, 255, 255>>),
      PreparedFrame(<<1>>, OptionID.INT), ErrorFrame(8704)>>

\* the frames of AnswerFrames a server answers a request of the opcode with
AnswersTo(opcode) ==
    IF opcode = Opcode.QUERY THEN {2, 4}
    ELSE IF opcode = Opcode.PREPARE THEN {3}
    ELSE {1}

\* the header the server puts before a frame that answers a request
ResponseHeader(request_bytes, frame) ==
    <<SERVER_SENT + 4, 0>> \o SubSeq(request_bytes, 3, 4) \o <<frame.opcode>>
    \o encode_int(Len(frame.body))

\* a call: the input it was made with, where it stands (connecting,
\* waiting, timedout, done), its stream id, the socket its request was
\* written to and the place of the request there, and the frame it was
\* answered with.  Its number is the name of its event.
NewCall(i) ==
    [input |-> i, pc |-> "connecting", stream_id |-> EVENT_STREAM_ID, sock |-> 0,
     widx |-> 0, answer |-> 0]

\* a call that has returned or raised, and whose request can no longer be
\* answered
DoneCall ==
    [input |-> 0, pc |-> "done", stream_id |-> EVENT_STREAM_ID, sock |-> 0,
     widx |-> 0, answer |-> 0]

\* the calls that wait on an event that is not set
Pending == {c \in 1..Len(calls) : calls[c].pc = "waiting" /\ c \notin evset}

\* what the last step did: the step, the call it was a step of and the
\* input of that call, the frame read, and what the step returned or
\* raised.  The steps that neither return nor raise leave no trace.
Did(op, c, i, f, r) ==
    IF op \in {"connect", "listen"}
    THEN [op |-> "step", call |-> 0, input |-> 0, frame |-> 0, err |-> "",
          val |-> <<>>]
    ELSE [op |-> op, call |-> c, input |-> i, frame |-> f, err |-> r.err,
          val |-> r.val]

Nothing == [err |-> "", val |-> <<>>]

Init ==
    /\ InitObjects
    /\ InitIdle
    /\ inp = "Dispatcher"
    /\ out = Did("init", 0, 0, 0, Nothing)

TaskDone == [st |-> "done", rd |-> 0]

\* the top of the loop of _listener, "while self._connected: await
\* self._receive()", up to the await of read(9): a reader another task is
\* waiting on refuses a second read
LoopTop(ts, t, connected, reader) ==
    IF ~connected \/ IsNone(reader) THEN [ts EXCEPT ![t] = TaskDone]
    ELSE IF \E u \in 1..Len(ts) :
                u # t /\ ts[u].st = "reading" /\ ts[u].rd = Val(reader)
    THEN [ts EXCEPT ![t] = TaskDone]
    ELSE [ts EXCEPT ![t] = [st |-> "reading", rd |-> Val(reader)]]

\* the end of a send whose bytes the writer puts before those it already
\* holds
SendDone_front(cs, c, ss, w, r) ==
    /\ _streams' = r.streams
    /\ _last_stream_id' = r.last
    /\ calls' = [cs EXCEPT ![c] =
                    IF r.err = ""
                    THEN [@ EXCEPT !.pc = "waiting", !.stream_id = r.stream_id,
                                   !.sock = Val(w), !.widx = 1]
                    ELSE DoneCall]
    /\ socks' = IF IsNone(r.written) THEN ss
                ELSE [ss EXCEPT ![Val(w)].written = <<Val(r.written)>> \o @]
    /\ out' = Did("send", c, cs[c].input, 0, [err |-> r.err, val |-> <<>>])

\* the end of Dispatcher.send for call c, and of make_call if send raised
SendDone(cs, c, ss, w, r) ==
    /\ _streams' = r.streams
    /\ _last_stream_id' = r.last
    /\ calls' = [cs EXCEPT ![c] =
                    IF r.err = ""
                    THEN [@ EXCEPT !.pc = "waiting", !.stream_id = r.stream_id,
                                   !.sock = Val(w),
                                   !.widx = Len(ss[Val(w)].written) + 1]
                    ELSE DoneCall]
    /\ socks' = IF IsNone(r.written) THEN ss
                ELSE [ss EXCEPT ![Val(w)].written = Append(@, Val(r.written))]
    /\ out' = Did("send", c, cs[c].input, 0, [err |-> r.err, val |-> <<>>])

\* Connection.make_call up to its first await: that of open_connection when
\* the dispatcher is not connected, that of event.wait() otherwise; no more
\* than the connections are opened or being opened
MakeCallWithin(connections) ==
    \E i \in 1..Len(CallInputs) :
        /\ Len(calls) < MaxCalls
        /\ IF _connected
           THEN /\ SendDone(Append(calls, NewCall(i)), Len(calls) + 1, socks,
                        _writer,
                        send(_streams, _last_stream_id, _prepared, compress, _writer,
                             CallInputs[i].opcode, CallInputs[i].params,
                             Len(calls) + 1))
                /\ UNCHANGED <<client_vars, dispatcher_vars, protocol_vars, tasks, evset, inp>>
           ELSE /\ Len(socks) + Cardinality({c \in 1..Len(calls) :
                                                calls[c].pc = "connecting"}) < connections
                /\ calls' = Append(calls, NewCall(i))
                /\ out' = Did("connect", 0, 0, 0, Nothing)
                /\ UNCHANGED <<client_vars, _streams, _last_stream_id, dispatcher_vars,
                               protocol_vars, socks, tasks, evset, inp>>

\* make_call where one connection is opened over the life of the dispatcher
MakeCall == MakeCallWithin(MaxConn)

\* Dispatcher._connect after open_connection has returned, then the rest of
\* send
Connected ==
    \E c \in 1..Len(calls) :
        /\ calls[c].pc = "connecting"
        /\ _reader' = Some(Len(socks) + 1)
        /\ _writer' = Some(Len(socks) + 1)
        /\ _connected' = TRUE
        /\ tasks' = Append(tasks, [st |-> "new", rd |-> 0])
        /\ _read_task' = Some(Len(tasks) + 1)
        /\ SendDone(calls, c,
                Append(socks, [state |-> "open", written |-> <<>>]),
                Some(Len(socks) + 1),
                send(_streams, _last_stream_id, _prepared, compress, Some(Len(socks) + 1),
                     CallInputs[calls[c].input].opcode,
                     CallInputs[calls[c].input].params, c))
        /\ UNCHANGED <<client_vars, _data, _running, protocol_vars, evset, inp>>

\* Dispatcher._listener from its start to its first await
ListenerStart ==
    \E t \in 1..Len(tasks) :
        /\ tasks[t].st = "new"
        /\ _running' = TRUE
        /\ tasks' = LoopTop(tasks, t, _connected, _reader)
        /\ out' = Did("listen", 0, 0, 0, Nothing)
        /\ UNCHANGED <<client_vars, _streams, _last_stream_id, _data, _connected, _reader,
                       _writer, _read_task, protocol_vars, socks, evset, calls, inp>>

\* the end of a round of the loop of _listener: _receive has returned or
\* raised; an exception that is neither ConnectionDroppedError nor
\* CancelledError ends the task under "except BaseException"
Received(t, c, f, rc) ==
    /\ _streams' = rc.streams
    /\ _data' = rc.data
    /\ _prepared' = rc._prepared
    /\ _events' = rc._events
    /\ evset' = evset \cup rc.set
    /\ calls' = [calls EXCEPT ![c] = IF @.pc = "timedout" THEN DoneCall
                                     ELSE [@ EXCEPT !.answer = f]]
    /\ tasks' = IF rc.err = "" THEN LoopTop(tasks, t, _connected, _reader)
                ELSE [tasks EXCEPT ![t] = TaskDone]
    /\ out' = Did("receive", c, calls[c].input, f, [err |-> rc.err, val |-> <<>>])
    /\ UNCHANGED <<client_vars, _last_stream_id, _connected, _running, _reader, _writer,
                   _read_task, socks, inp>>

\* the server answers a request it was sent and a listener reads the frame:
\* Dispatcher._receive, then the loop of _listener up to its next await
Receive ==
    \E t \in 1..Len(tasks), c \in 1..Len(calls), f \in 1..Len(AnswerFrames) :
        /\ tasks[t].st = "reading"
        /\ socks[tasks[t].rd].state = "open"
        /\ calls[c].sock = tasks[t].rd
        /\ calls[c].answer = 0
        /\ f \in AnswersTo(CallInputs[calls[c].input].opcode)
        /\ Received(t, c, f,
                    _receive(_streams, _data, _prepared, _events,
                             ResponseHeader(socks[calls[c].sock].written[calls[c].widx],
                                            AnswerFrames[f]),
                             AnswerFrames[f].body))

Retrieved(c, r) ==
    /\ _data' = r.data
    /\ calls' = [calls EXCEPT ![c] = DoneCall]
    /\ out' = Did("retrieve", c, calls[c].input, calls[c].answer, r)
    /\ UNCHANGED <<client_vars, _streams, _last_stream_id, _connected, _running, _reader,
                   _writer, _read_task, protocol_vars, socks, tasks, evset, inp>>

\* Connection.make_call after event.wait() has returned: Dispatcher.retrieve
Retrieve ==
    \E c \in 1..Len(calls) :
        /\ calls[c].pc = "waiting"
        /\ c \in evset
        /\ Retrieved(c, retrieve(_data, c))

\* "await event.wait()" without wait_for: nothing ends the wait but the event
gives_up_never(cs, c, set) == FALSE

\* asyncio.wait_for(event.wait(), timeout=REQUEST_TIMEOUT) gives up on the
\* wait of call c when the time is over and the event is not set
gives_up(cs, c, set) == cs[c].pc = "waiting" /\ c \notin set

\* Connection.make_call when wait_for gives up after REQUEST_TIMEOUT
TimeOut ==
    \E c \in 1..Len(calls) :
        /\ gives_up(calls, c, evset)
        /\ calls' = [calls EXCEPT ![c] = IF @.answer # 0 THEN DoneCall
                                         ELSE [@ EXCEPT !.pc = "timedout"]]
        /\ out' = Did("timeout", c, calls[c].input, 0, [err |-> "RequestTimeout", val |-> <<>>])
        /\ UNCHANGED <<client_vars, _streams, _last_stream_id, dispatcher_vars, protocol_vars,
                       socks, tasks, evset, inp>>

\* _listener under "except ConnectionDroppedError" with what its loop over
\* the streams gave: _reader and _writer are dropped only if the loop ended
Dropped(t, d) ==
    /\ _running' = FALSE
    /\ _streams' = d.streams
    /\ _data' = d.data
    /\ evset' = evset \cup d.set
    /\ _reader' = IF d.err = "" THEN None ELSE _reader
    /\ _writer' = IF d.err = "" THEN None ELSE _writer
    /\ tasks' = [tasks EXCEPT ![t] = TaskDone]
    /\ out' = Did("reset", 0, 0, 0, [err |-> d.err, val |-> <<>>])
    /\ UNCHANGED <<client_vars, _last_stream_id, _connected, _read_task, protocol_vars, calls,
                   inp>>

\* the peer resets the connection a listener waits on in read(9):
\* ConnectionResetError becomes ConnectionDroppedError
ReadReset ==
    \E t \in 1..Len(tasks) :
        /\ tasks[t].st = "reading"
        /\ socks[tasks[t].rd].state \in {"open", "reset"}
        /\ socks' = [socks EXCEPT ![tasks[t].rd].state = "reset"]
        /\ Dropped(t, end_streams(KeyList(_streams), 1, _streams, _data, {}))

\* the connection a listener waits on is closed: read(9) returns b"",
\* decode_header raises struct.error, caught under "except BaseException"
ReadEOF ==
    \E t \in 1..Len(tasks) :
        /\ tasks[t].st = "reading"
        /\ socks[tasks[t].rd].state \in {"open", "eof", "closed"}
        /\ socks' = [socks EXCEPT ![tasks[t].rd].state =
                        IF @ = "open" THEN "eof" ELSE @]
        /\ tasks' = [tasks EXCEPT ![t] = TaskDone]
        /\ out' = Did("eof", 0, 0, 0, [err |-> "struct.error", val |-> <<>>])
        /\ UNCHANGED <<client_vars, _streams, _last_stream_id, dispatcher_vars, protocol_vars,
                       evset, calls, inp>>

\* the writer closed by Dispatcher.close
WriterClosed ==
    IF ~IsNone(_writer) /\ socks[Val(_writer)].state = "open"
    THEN [socks EXCEPT ![Val(_writer)].state = "closed"]
    ELSE socks

\* Dispatcher.close(), as Connection.close calls it; the listener it
\* cancels finds _running False and ends
Close ==
    /\ socks' = WriterClosed
    /\ _connected' = FALSE
    /\ _running' = FALSE
    /\ tasks' = IF ~IsNone(_read_task) /\ tasks[Val(_read_task)].st # "done"
                THEN [tasks EXCEPT ![Val(_read_task)] = TaskDone]
                ELSE tasks
    /\ out' = Did("close", 0, 0, 0, Nothing)
    /\ UNCHANGED <<client_vars, _streams, _last_stream_id, _data, _reader, _writer, _read_task,
                   protocol_vars, evset, calls, inp>>

Next ==
    \/ MakeCall
    \/ Connected
    \/ ListenerStart
    \/ Receive
    \/ Retrieve
    \/ TimeOut
    \/ ReadReset
    \/ ReadEOF
    \/ Close

Spec == Init /\ [][Next]_vars

\* ------------------------------------------------ claims on the dispatcher

\* what Dispatcher._receive stores for a call of the input answered by the
\* frame: the value build_response returns or the exception it raises
Decoded(i, f) ==
    [err |-> build_response(Message(CallInputs[i].opcode, 0, CallInputs[i].params, None),
                            AnswerFrames[f].opcode, AnswerFrames[f].body, <<>>,
                            None).err,
     val |-> build_response(Message(CallInputs[i].opcode, 0, CallInputs[i].params, None),
                            AnswerFrames[f].opcode, AnswerFrames[f].body, <<>>,
                            None).val]

\* a step in which a frame sets the event of call c
Completes(c) == c \notin evset /\ c \in evset' /\ out'.op = "receive"

C2_Step ==
    /\ \A c \in 1..Len(calls) :
           Completes(c) =>
               /\ out'.call = c
               /\ Has(_streams, calls[c].stream_id)
               /\ Val(Get(_streams, calls[c].stream_id)).event = c
               /\ _streams' = Del(_streams, calls[c].stream_id)
               /\ evset' = evset \cup {c}
               /\ _data' = Put(_data, c, Decoded(calls[c].input, out'.frame))
    /\ \A k \in Keys(_streams') :
           ~IsNone(Get(_streams', k)) => Val(Get(_streams', k)).event \notin evset'
    /\ \A c \in 1..Len(calls) :
           (out'.op = "retrieve" /\ out'.call = c) =>
               /\ Has(_data, c)
               /\ out'.err = Get(_data, c).err
               /\ out'.val = Get(_data, c).val
               /\ _data' = Del(_data, c)

\* C2: whatever the interleaving of the calls and the order of the answers,
\* a frame that sets an event sets the event of the slot registered under
\* its stream id and of no other, that slot is out of the registry when the
\* event is set, what is stored for the event is what build_response makes
\* of the frame that answered the request of the call, and a caller
\* retrieves what is stored for its own event.
C2_ResponseCompletesItsSlot == [][C2_Step]_vars

\* C2 witness: the second call has retrieved its result while the first,
\* written before it, still waits for its answer
C2_Witness ==
    /\ out.op = "retrieve"
    /\ out.call = 2
    /\ out.err = ""
    /\ calls[1].pc = "waiting"
    /\ calls[1].sock # 0
    /\ 1 \notin evset

\* C3: once a listener has seen its socket closed or reset, the registry is
\* empty and every call that waits has its event set, with
\* ConnectionDroppedError stored for it unless its answer had come before.
C3_DropEndsAll ==
    out.op \in {"reset", "eof"} =>
        /\ _streams = <<>>
        /\ \A c \in 1..Len(calls) :
               calls[c].pc = "waiting" =>
                   /\ c \in evset
                   /\ Has(_data, c)
                   /\ calls[c].answer = 0 => Get(_data, c).err = "ConnectionDroppedError"

\* C4: once close() has returned, the registry is empty and no call waits
\* on an event that is not set.
C4_CloseEndsPending ==
    out.op = "close" => (_streams = <<>> /\ Pending = {})

\* C5: when build_response raises on a frame, _receive returns, the
\* exception is stored for the event of the call, the event is set, and a
\* listener still reads.
C5_DecoderErrorStored ==
    (out.op = "receive" /\ Decoded(out.input, out.frame).err # "") =>
        /\ out.err = ""
        /\ out.call \in evset
        /\ Has(_data, out.call)
        /\ Get(_data, out.call).err = Decoded(out.input, out.frame).err
        /\ \E t \in 1..Len(tasks) : tasks[t].st = "reading"

\* the statement id an EXECUTE frame on the wire carries after its header
WireStatementId(frame) ==
    SubSeq(frame, 12, 11 + UnsignedBE(SubSeq(frame, 10, 11)))

\* the socket s had before the step, or an unwritten one if the step opened it
Before(s) ==
    IF s <= Len(socks) THEN socks[s] ELSE [state |-> "open", written |-> <<>>]

C9_Step ==
    /\ _prepared' # _prepared =>
           /\ out'.op = "receive"
           /\ CallInputs[out'.input].opcode = Opcode.PREPARE
           /\ AnswerFrames[out'.frame].sent.variant = "Prepared"
           /\ Keys(_prepared') = Keys(_prepared) \cup {<<1>>}
    /\ (out'.op = "send" /\ CallInputs[out'.input].opcode = Opcode.EXECUTE
           /\ ~Has(_prepared, CallInputs[out'.input].params.statement_id)) =>
           /\ out'.err = "InternalDriverError"
           /\ \A s \in 1..Len(socks') : socks'[s].written = Before(s).written
    /\ \A s \in 1..Len(socks') :
           \A j \in 1..Len(socks'[s].written) :
               socks'[s].written[j][5] = Opcode.EXECUTE =>
                   Has(_prepared', WireStatementId(socks'[s].written[j]))

SlotLive(s, c) == Has(s, calls[c].stream_id)

\* a step of the dispatcher as C17 allows it
C17_Step ==
    /\ out'.op = "timeout" =>
           /\ out'.err = "RequestTimeout"
           /\ _streams' = _streams
           /\ calls[out'.call].answer = 0 => SlotLive(_streams', out'.call)
    /\ \A c \in 1..Len(calls) :
           calls[c].pc = "timedout" =>
               /\ (SlotLive(_streams, c) /\ ~SlotLive(_streams', c)) =>
                      \/ out'.op = "receive" /\ out'.call = c
                      \/ out'.op = "reset"
               /\ (out'.op = "receive" /\ out'.call = c) => ~SlotLive(_streams', c)
    /\ (out'.op = "reset" /\ out'.err = "") => _streams' = <<>>

\* C17: a call whose response has not arrived when wait_for gives up ends
\* with RequestTimeout and its slot stays in the registry; the slot of a
\* timed-out call leaves the registry only when its response is received or
\* when the listener ends all streams after a drop, and it does leave it
\* then.
C17_TimeoutKeepsSlot == [][C17_Step]_vars

\* C17 witness: the response of a call that had timed out has been received
\* and its slot is gone
C17_Witness ==
    /\ out.op = "receive"
    /\ out.err = ""
    /\ calls[out.call].pc = "done"
    /\ _streams = <<>>

\* a step that receives the response of a timed-out call leaves nothing of
\* the call behind
C18_Step ==
    \A c \in 1..Len(calls) :
        (calls[c].pc = "timedout" /\ out'.op = "receive" /\ out'.call = c) =>
            /\ ~SlotLive(_streams', c)
            /\ ~Has(_data', c)

\* C18: once the response of a call that timed out has been processed,
\* neither the registry of streams nor the data map holds an entry for it.
C18_AbandonedResponseDropped == [][C18_Step]_vars

\* ------------------------------------------------ EXECUTE alone
\* A connected dispatcher whose cache holds one statement, prepared with
\* the column types inp.specs names, executes it once with the values
\* inp.params names.

\* the bound columns of the statement, and the values bound in a call
MaxParams == 2

ParamTypes == <<OptionID.INT, OptionID.TINYINT, OptionID.VARCHAR>>

\* the host values bound: the ints 7 and -1 and the str "x"
ValuePool == <<[t |-> "int", v |-> 7], [t |-> "int", v |-> -1], [t |-> "str", v |-> <<120>>]>>

\* the host type the branch of encode_query_parameters for the column type
\* tests its value for
HostTypeOf(option_id) ==
    IF option_id \in {OptionID.INT, OptionID.TINYINT} THEN "int" ELSE "str"

Picked(pool, picks) == [i \in 1..Len(picks) |-> pool[picks[i]]]

\* the cache after a PREPARE was answered by a Prepared result of the id 1
\* with the columns
PreparedWith(option_ids) ==
    build_response(Message(Opcode.PREPARE, 0, NoParams, None), Opcode.RESULT,
                   PreparedFrameOf(<<1>>, option_ids).body, <<>>, None)._prepared

InitExecute ==
    /\ inp \in [specs : UNION {[1..n -> 1..Len(ParamTypes)] : n \in 1..MaxParams},
                params : UNION {[1..n -> 1..Len(ValuePool)] : n \in 0..MaxParams}]
    /\ _streams = <<>>
    /\ _last_stream_id = None
    /\ _data = <<>>
    /\ _connected = TRUE
    /\ _running = TRUE
    /\ _reader = Some(1)
    /\ _writer = Some(1)
    /\ _read_task = Some(1)
    /\ _prepared = PreparedWith(Picked(ParamTypes, inp.specs))
    /\ _events = None
    /\ compress = None
    /\ decompress = None
    /\ InitIdle
    /\ socks = <<[state |-> "open", written |-> <<>>]>>
    /\ tasks = <<[st |-> "reading", rd |-> 1]>>
    /\ evset = {}
    /\ calls = <<>>
    /\ out = Did("init", 0, 0, 0, Nothing)

\* Connection.make_call of an EXECUTE up to its first await
Execute ==
    /\ out.op = "init"
    /\ SendDone(Append(calls, NewCall(3)), 1, socks, _writer,
                send(_streams, _last_stream_id, _prepared, compress, _writer, Opcode.EXECUTE,
                     [NoParams EXCEPT !.statement_id = <<1>>,
                                      !.query_params =
                                          Some(Picked(ValuePool, inp.params))],
                     1))
    /\ UNCHANGED <<client_vars, dispatcher_vars, protocol_vars, tasks, evset, inp>>

NextExecute == Execute

SpecExecute == InitExecute /\ [][NextExecute]_vars

\* a value whose host type is not the one its column type is tested for
Mismatch ==
    \E i \in 1..Len(inp.params) :
        /\ i <= Len(inp.specs)
        /\ ValuePool[inp.params[i]].t # HostTypeOf(ParamTypes[inp.specs[i]])

\* C10: an EXECUTE whose values differ in number from the columns of the
\* statement, or one of whose values has a host type other than that of its
\* column, raises BadInputException and writes nothing to the socket.
C10_MismatchIsBadInput ==
    (out.op = "send" /\ (Len(inp.params) # Len(inp.specs) \/ Mismatch)) =>
        /\ out.err = "BadInputException"
        /\ socks[1].written = <<>>

\* ------------------------------------------------ request frames alone
\* A V4Protocol whose compress is None or the function of an algorithm
\* builds one request through the handler of inp.opcode, and the request is
\* turned into the bytes of its frame.  inp.fill sizes the body.

\* the longest filling of a body
MaxFill == 60

Fills == {1} \cup ((MaxFill - 10)..MaxFill)

FrameOpcodes ==
    <<Opcode.OPTIONS, Opcode.STARTUP, Opcode.QUERY, Opcode.PREPARE, Opcode.EXECUTE,
      Opcode.REGISTER>>

Compressors == <<None, Some(S_lz4), Some(S_snappy)>>

\* n bytes "q"
Fill(n) == [i \in 1..n |-> 113]

\* the parameters of a request whose body grows with n: the query, the
\* statement id, an option beside CQL_VERSION, one event for every 13 of n
FilledParams(n) ==
    [NoParams EXCEPT
        !.query = Fill(n),
        !.statement_id = Fill(n),
        !.options = <<[k |-> S_CQL_VERSION, v |-> S_3_0_0], [k |-> <<88>>, v |-> Fill(n)]>>,
        !.events = [i \in 1..(n \div 13) |-> S_SCHEMA_CHANGE]]

\* the cache after a statement without bound columns was prepared under the
\* id
PreparedAs(statement_id) ==
    build_response(Message(Opcode.PREPARE, 0, NoParams, None), Opcode.RESULT,
                   PreparedFrameOf(statement_id, <<>>).body, <<>>, None)._prepared

InitBytes ==
    /\ inp \in [opcode : 1..Len(FrameOpcodes), algo : 1..Len(Compressors),
                fill : Fills]
    /\ _streams = <<>>
    /\ _last_stream_id = None
    /\ _data = <<>>
    /\ _connected = FALSE
    /\ _running = FALSE
    /\ _reader = None
    /\ _writer = None
    /\ _read_task = None
    /\ _prepared = PreparedAs(Fill(inp.fill))
    /\ _events = None
    /\ socks = <<>>
    /\ tasks = <<>>
    /\ evset = {}
    /\ calls = <<>>
    /\ compress = Compressors[inp.algo]
    /\ decompress = None
    /\ InitIdle
    /\ out = [op |-> "init", err |-> "", val |-> <<>>, request |-> <<>>]

\* what bytes(request) gave for the request a handler built
Assembled(request, frame) ==
    [op |-> "bytes", err |-> frame.err, val |-> frame.val, request |-> <<request>>]

\* a handler of V4Protocol, then bytes() of its message, as Dispatcher.send
\* has them follow each other
Bytes ==
    /\ out.op = "init"
    /\ out' = Assembled(
                  request_handler(FrameOpcodes[inp.opcode], 0, FilledParams(inp.fill),
                                  _prepared, compress).val,
                  RequestMessage_bytes(
                      request_handler(FrameOpcodes[inp.opcode], 0,
                                      FilledParams(inp.fill), _prepared, compress).val))
    /\ UNCHANGED <<_streams, _last_stream_id, dispatcher_vars, protocol_vars,
                   env_vars, client_vars, inp>>

NextBytes == Bytes

SpecBytes == InitBytes /\ [][NextBytes]_vars

\* the body of the frame in out, and the body of its request before any
\* compression
Payload == SubSeq(out.val, 10, Len(out.val))

PlainBody == encode_body(out.request[1]).val

\* the request in out was built with a compress function and has a body of
\* COMPRESS_MINIMUM bytes or more
Squeezed ==
    /\ ~IsNone(out.request[1].compress)
    /\ Len(PlainBody) >= COMPRESS_MINIMUM

\* C14: the body of a request frame is compressed, and the COMPRESSION flag
\* of its header set, exactly when its message carries a compress function
\* and its body has COMPRESS_MINIMUM bytes or more; the messages of OPTIONS
\* and STARTUP never carry one, whatever the protocol has chosen.
C14_CompressedIffAttachedAndLong ==
    (out.op = "bytes" /\ out.err = "") =>
        /\ HasFlag(out.val[2], Flags.COMPRESSION) <=> Squeezed
        /\ Payload = IF Squeezed
                     THEN PKZip_compress(PlainBody, Val(out.request[1].compress))
                     ELSE PlainBody
        /\ Squeezed => Payload # PlainBody
        /\ SignedBE(SubSeq(out.val, 6, 9)) = Len(Payload)
        /\ FrameOpcodes[inp.opcode] \in {Opcode.OPTIONS, Opcode.STARTUP} =>
               /\ ~HasFlag(out.val[2], Flags.COMPRESSION)
               /\ Payload = PlainBody
        /\ FrameOpcodes[inp.opcode] \in {Opcode.QUERY, Opcode.PREPARE, Opcode.EXECUTE} =>
               out.request[1].compress = compress

\* C14 witness: a STARTUP with a body of COMPRESS_MINIMUM bytes or more,
\* built after lz4 was chosen, went out as it was
C14_Witness ==
    /\ out.op = "bytes"
    /\ out.err = ""
    /\ FrameOpcodes[inp.opcode] = Opcode.STARTUP
    /\ compress = Some(S_lz4)
    /\ Len(PlainBody) >= COMPRESS_MINIMUM
    /\ Payload = PlainBody

\* a QUERY with a body of exactly COMPRESS_MINIMUM bytes went out compressed
\* by snappy, and one of a byte less went out as it was
C14_Threshold ==
    /\ out.op = "bytes"
    /\ FrameOpcodes[inp.opcode] = Opcode.QUERY
    /\ compress = Some(S_snappy)
    /\ Len(PlainBody) = COMPRESS_MINIMUM
    /\ HasFlag(out.val[2], Flags.COMPRESSION)

\* ------------------------------------- the choice of options alone
\* Connection.make_choices over what a peer may answer to OPTIONS, with
\* either codec library installed or missing.

PREFERRED_ALGO == S_lz4

S_zstd == <<122, 115, 116, 100>>

S_3_4_4 == <<51, 46, 52, 46, 52>>

\* the longest COMPRESSION list of a peer
MaxAlgos == 2

\* PKZip().supported: the keys in the order __init__ enters them
PKZip_supported(has_snappy, has_lz4) ==
    (IF has_snappy THEN <<S_snappy>> ELSE <<>>) \o (IF has_lz4 THEN <<S_lz4>> ELSE <<>>)

\* PKZip.get_compress / get_decompress: the function of the algorithm, held
\* as the algorithm's name and applied by PKZip_compress
get_compress(select) == Some(select)

get_decompress(select) == Some(select)

\* [algo for algo in pkzip.supported if algo in offered]
Matches(supported, offered) ==
    SelectSeq(supported, LAMBDA algo : \E i \in 1..Len(offered) : offered[i] = algo)

\* the three assignments under "if len(matches) > 0"
Chosen(conn, select) ==
    [conn EXCEPT !._options = Put(conn._options, S_COMPRESSION, select),
                 !._compress = get_compress(select),
                 !._decompress = get_decompress(select)]

\* make_choices with matches[0] taken whatever preferred_algo is
make_choices_first(conn, supported_options, supported) ==
    IF /\ ~IsNone(supported_options)
       /\ Has(Val(supported_options), S_COMPRESSION)
       /\ ~conn.no_compress
       /\ Len(Matches(supported, Get(Val(supported_options), S_COMPRESSION))) > 0
    THEN Chosen([conn EXCEPT !.supported_options = supported_options],
                Matches(supported, Get(Val(supported_options), S_COMPRESSION))[1])
    ELSE [conn EXCEPT !.supported_options = supported_options]

\* the select of make_choices
Select(preferred_algo, matches) ==
    IF \E i \in 1..Len(matches) : matches[i] = preferred_algo
    THEN preferred_algo
    ELSE matches[1]

make_choices(conn, supported_options, supported) ==
    IF /\ ~IsNone(supported_options)
       /\ Has(Val(supported_options), S_COMPRESSION)
       /\ ~conn.no_compress
       /\ Len(Matches(supported, Get(Val(supported_options), S_COMPRESSION))) > 0
    THEN Chosen([conn EXCEPT !.supported_options = supported_options],
                Select(PREFERRED_ALGO,
                       Matches(supported, Get(Val(supported_options), S_COMPRESSION))))
    ELSE [conn EXCEPT !.supported_options = supported_options]

AlgoLists == UNION {[1..n -> {S_lz4, S_snappy, S_zstd}] : n \in 0..MaxAlgos}

\* what make_call(self.protocol.options, ...) may give: nothing, a multimap
\* without COMPRESSION, one with a COMPRESSION list
PeerOptions ==
    {None, Some(<<[k |-> S_CQL_VERSION, v |-> <<S_3_4_4>>]>>)}
        \cup {Some(<<[k |-> S_CQL_VERSION, v |-> <<S_3_4_4>>],
                     [k |-> S_COMPRESSION, v |-> l]>>) : l \in AlgoLists}

InitChoices ==
    /\ inp \in [peer : PeerOptions, no_compress : BOOLEAN, has_snappy : BOOLEAN,
                has_lz4 : BOOLEAN]
    /\ InitObjects
    /\ _conn = NewConnection(inp.no_compress)
    /\ _is_ready_event = FALSE
    /\ _paged = <<>>
    /\ ops = <<>>
    /\ out = [op |-> "init", err |-> "", val |-> <<>>]

\* make_choices, then the body of the STARTUP that Connection.startup
\* builds from self.options
MakeChoices ==
    /\ out.op = "init"
    /\ _conn' = make_choices(_conn, inp.peer, PKZip_supported(inp.has_snappy, inp.has_lz4))
    /\ out' = [op |-> "make_choices", err |-> "",
               val |-> StartupMessage_encode_body(
                           [NoParams EXCEPT !.options = _conn'._options]).val]
    /\ UNCHANGED <<_streams, _last_stream_id, dispatcher_vars, protocol_vars, env_vars,
                   _is_ready_event, _paged, compress, decompress, ops, inp>>

NextChoices == MakeChoices

SpecChoices == InitChoices /\ [][NextChoices]_vars

\* the peer of inp offers the algorithm in its COMPRESSION list
Offers(algo) ==
    /\ ~IsNone(inp.peer)
    /\ Has(Val(inp.peer), S_COMPRESSION)
    /\ \E i \in 1..Len(Get(Val(inp.peer), S_COMPRESSION)) :
           Get(Val(inp.peer), S_COMPRESSION)[i] = algo

\* what the claim selects: lz4 where both sides have it, else snappy where
\* both sides have it, else nothing; nothing under no_compress
Negotiated ==
    IF inp.no_compress THEN None
    ELSE IF Offers(S_lz4) /\ inp.has_lz4 THEN Some(S_lz4)
    ELSE IF Offers(S_snappy) /\ inp.has_snappy THEN Some(S_snappy)
    ELSE None

\* C13: make_choices selects lz4 where the peer's COMPRESSION list holds it
\* and the client has it, else snappy where both have it, else nothing, and
\* nothing under no_compress; the options of the STARTUP hold COMPRESSION
\* exactly when an algorithm was selected, with the algorithm as its value.
C13_CompressionChoice ==
    out.op = "make_choices" =>
        /\ _conn._compress = Negotiated
        /\ _conn._decompress = Negotiated
        /\ Has(_conn._options, S_COMPRESSION) <=> ~IsNone(Negotiated)
        /\ ~IsNone(Negotiated) => Get(_conn._options, S_COMPRESSION) = Val(Negotiated)
        /\ Get(_conn._options, S_CQL_VERSION) = S_3_0_0
        /\ out.val = StartupMessage_encode_body(
                         [NoParams EXCEPT !.options =
                             <<[k |-> S_CQL_VERSION, v |-> S_3_0_0]>>
                                 \o (IF IsNone(Negotiated) THEN <<>>
                                     ELSE <<[k |-> S_COMPRESSION,
                                             v |-> Val(Negotiated)]>>)]).val

\* C13 witness: a peer offering snappy before lz4 to a client with both
\* was answered with lz4
C13_Witness ==
    /\ out.op = "make_choices"
    /\ ~IsNone(inp.peer)
    /\ Has(Val(inp.peer), S_COMPRESSION)
    /\ Get(Val(inp.peer), S_COMPRESSION) = <<S_snappy, S_lz4>>
    /\ inp.has_snappy
    /\ inp.has_lz4
    /\ ~inp.no_compress
    /\ Get(_conn._options, S_COMPRESSION) = S_lz4

\* --------------------------------------------- response bodies alone
\* ResponseMessage.create over the bodies a server may send, whole, cut
\* short and followed by further bytes; and SBytes.grab walking over the
\* same bodies.

\* the most bytes taken off or put after a body
MaxCut == 2

\* the most bytes one grab asks for
MaxGrab == 3

\* the frames build_response has a factory for
CreateFrames == SelectSeq(ProtoFrames, LAMBDA f : ~IsNone(factory_of(f.opcode)))

\* the body of the frame with cut bytes put after it, or -cut bytes taken
\* off its end
CutBody(body, cut) ==
    IF cut >= 0 THEN body \o [i \in 1..cut |-> 0]
    ELSE SubSeq(body, 1, Len(body) + cut)

InitCreate ==
    /\ InitObjects
    /\ InitIdle
    /\ inp \in [frame : 1..Len(CreateFrames), cut : (0 - MaxCut)..MaxCut]
    /\ Len(CreateFrames[inp.frame].body) + inp.cut >= 0
    /\ out = [op |-> "init", err |-> "", count |-> 0, val |-> <<>>,
              prev |-> SBytes(CutBody(CreateFrames[inp.frame].body, inp.cut)),
              sb |-> SBytes(CutBody(CreateFrames[inp.frame].body, inp.cut))]

\* what an operation on the body gave, and the cursor before and after it
Cursor(op, count, prev, r) ==
    [op |-> op, err |-> r.err, count |-> count,
     val |-> IF op = "grab" THEN r.val ELSE <<>>, prev |-> prev, sb |-> r.sb]

\* factory.create(version, flags, stream_id, body) on the untouched body
Create ==
    /\ out.op = "init"
    /\ out' = Cursor("create", 0, out.sb,
                     ResponseMessage_create(
                         Val(factory_of(CreateFrames[inp.frame].opcode)), out.sb))
    /\ UNCHANGED <<_streams, _last_stream_id, dispatcher_vars, protocol_vars,
                   env_vars, client_vars, inp>>

\* body.grab(count), as the decoders call it one after the other
Grab ==
    /\ out.op \in {"init", "grab"}
    /\ \E count \in 0..MaxGrab :
           out' = Cursor("grab", count, out.sb, grab(out.sb, count))
    /\ UNCHANGED <<_streams, _last_stream_id, dispatcher_vars, protocol_vars,
                   env_vars, client_vars, inp>>

NextCreate == Create \/ Grab

SpecCreate == InitCreate /\ [][NextCreate]_vars

\* the frame of inp decodes when it is whole
Whole ==
    ResponseMessage_create(Val(factory_of(CreateFrames[inp.frame].opcode)),
                           SBytes(CreateFrames[inp.frame].body)).err = ""

\* C19: create gives a message only with the cursor at the end of the body;
\* a body that decodes, followed by further bytes, raises
\* InternalDriverError, and so does one cut short; a grab of more bytes than
\* the body has left raises InternalDriverError and leaves the cursor where
\* it was, any other grab gives the bytes at the cursor and moves it by
\* their number.
C19_WholeBodyOrError ==
    /\ (out.op = "create" /\ out.err = "") =>
           /\ out.sb.idx = Len(out.prev.data)
           /\ out.sb.data = out.prev.data
    /\ (out.op = "create" /\ Whole /\ inp.cut # 0) => out.err = "InternalDriverError"
    /\ (out.op = "create" /\ Whole /\ inp.cut > 0) =>
           out.sb.idx = Len(CreateFrames[inp.frame].body)
    /\ out.op = "grab" =>
           IF out.prev.idx + out.count > Len(out.prev.data)
           THEN out.err = "InternalDriverError" /\ out.sb = out.prev
           ELSE /\ out.err = ""
                /\ out.sb.idx = out.prev.idx + out.count
                /\ out.val = SubSeq(out.prev.data, out.prev.idx + 1, out.sb.idx)

\* C19 witness: a Rows result followed by a byte was refused with the cursor
\* on that byte
C19_Witness ==
    /\ out.op = "create"
    /\ CreateFrames[inp.frame].sent.variant = "Rows"
    /\ inp.cut = 1
    /\ out.err = "InternalDriverError"
    /\ out.sb.idx = Len(out.prev.data) - 1

\* a grab past the end of a body was refused after some bytes were taken
C19_GrabRefused ==
    /\ out.op = "grab"
    /\ out.prev.idx > 0
    /\ out.prev.idx + out.count > Len(out.prev.data)
    /\ out.err = "InternalDriverError"

\* ------------------------------------------------ frame headers alone
\* Protocol.decode_header of a protocol object of either role and of the
\* versions 3..MaxVersion, over headers of any version byte.

\* the highest protocol version
MaxVersion == 5

Versions == 3..MaxVersion

VersionBytes == {0, 255} \cup Versions \cup {SERVER_SENT + v : v \in Versions}

\* stream id, opcode and length fields, as bytes
HeaderRests ==
    {<<0, 0, 2, 0, 0, 0, 0>>, <<255, 255, 12, 0, 0, 0, 1>>, <<0, 7, 8, 0, 0, 1, 0>>}

InitHeader ==
    /\ InitObjects
    /\ InitIdle
    /\ inp \in [byte : VersionBytes, flags : {0, 1}, rest : HeaderRests,
                extra : {-1, 0, 1}, version : Versions, server_role : BOOLEAN]
    /\ out = [op |-> "init", header |-> <<>>, val |-> Header("", <<0, 0, 0, 0, 0, 0, 0, 0, 0>>)]

\* the bytes handed to decode_header: 9 of them, one less or one more
HeaderBytes ==
    IF inp.extra = -1 THEN <<inp.byte, inp.flags>> \o SubSeq(inp.rest, 1, 6)
    ELSE IF inp.extra = 0 THEN <<inp.byte, inp.flags>> \o inp.rest
    ELSE <<inp.byte, inp.flags>> \o inp.rest \o <<0>>

DecodeHeader ==
    /\ out.op = "init"
    /\ out' = [op |-> "decode_header", header |-> HeaderBytes,
               val |-> Protocol_decode_header(HeaderBytes, inp.version,
                                              inp.server_role)]
    /\ UNCHANGED <<_streams, _last_stream_id, dispatcher_vars, protocol_vars,
                   env_vars, client_vars, inp>>

NextHeader == DecodeHeader

SpecHeader == InitHeader /\ [][NextHeader]_vars

\* the version with the high bit clear in server role, set otherwise
ExpectedByte == IF inp.server_role THEN inp.version ELSE 128 + inp.version

\* C20: decode_header gives the fields of a 9-byte header exactly when its
\* version byte is the version of the protocol object with the high bit
\* set, or with the high bit clear in server role (0x84 for a client of
\* version 4); any other version byte raises VersionMismatchException.
C20_VersionByteChecked ==
    (out.op = "decode_header" /\ Len(out.header) = 9) =>
        /\ out.val.err = "" <=> out.header[1] = ExpectedByte
        /\ out.header[1] # ExpectedByte => out.val.err = "VersionMismatchException"
        /\ out.val.err = "" =>
               /\ out.val.version = ExpectedByte
               /\ out.val.flags = inp.flags
               /\ out.val.stream = SignedBE(SubSeq(inp.rest, 1, 2))
               /\ out.val.opcode = inp.rest[3]
               /\ out.val.length = SignedBE(SubSeq(inp.rest, 4, 7))
        /\ (inp.version = 4 /\ ~inp.server_role) =>
               /\ out.val.err = "" <=> out.header[1] = 132
               /\ decode_header(out.header) = out.val

\* C20 witness: in server role a header of version byte 0x84 was refused by
\* a protocol object of version 4, which had taken it as a client
C20_Witness ==
    /\ out.op = "decode_header"
    /\ Len(out.header) = 9
    /\ inp.server_role
    /\ inp.version = 4
    /\ out.header[1] = 132
    /\ out.val.err = "VersionMismatchException"
    /\ decode_header(out.header).err = ""

\* ------------------------------------------------ the client at work
\* One Client with its Connection, V4Protocol and Dispatcher, the
\* operations called on it concurrently, the listener task startup starts
\* and the server behind the socket.  A step is the code a coroutine runs
\* between two of its awaits.  The Dispatcher is the one connection.py
\* builds from a reader and a writer: send writes at once, cycle is one
\* round of the read loop, end_all ends every pending call.

\* the most operations called on the client
MaxOps == 2

\* connect(), and the operations under @online
OpKinds == <<"connect", "query", "prepare", "execute", "register">>

OpcodeOf(kind) ==
    IF kind = "query" THEN Opcode.QUERY
    ELSE IF kind = "prepare" THEN Opcode.PREPARE
    ELSE IF kind = "execute" THEN Opcode.EXECUTE
    ELSE Opcode.REGISTER

\* the params of the make_call of an operation
ParamsOf(kind) ==
    IF kind = "execute"
    THEN [NoParams EXCEPT !.statement_id = <<1>>,
                          !.query_params = Some(<<[t |-> "int", v |-> 7]>>)]
    ELSE IF kind = "register" THEN [NoParams EXCEPT !.events = <<S_SCHEMA_CHANGE>>]
    ELSE NoParams

\* a SUPPORTED that offers no COMPRESSION
PlainSupportedFrame ==
    Frame(Opcode.SUPPORTED,
          encode_short(1) \o encode_string(S_CQL_VERSION)
          \o encode_strings_list(<<S_3_4_4>>), "Supported")

\* the frames a server answers a request of the opcode with
ServerFrames(opcode) ==
    IF opcode = Opcode.OPTIONS THEN <<SupportedFrame, PlainSupportedFrame, ErrorFrame(10)>>
    ELSE IF opcode = Opcode.STARTUP THEN <<ReadyFrame, ErrorFrame(10)>>
    ELSE IF opcode = Opcode.PREPARE THEN <<PreparedFrame(<<1>>, OptionID.INT)>>
    ELSE IF opcode = Opcode.REGISTER THEN <<ReadyFrame>>
    ELSE <<VoidFrame>>

\* Connection.is_ready
is_ready(conn) == conn._is_ready

\* the test "if self._in_startup" left out of startup
in_startup_never(conn) == FALSE

\* "if self._in_startup: return False" at the top of Connection.startup
in_startup(conn) == conn._in_startup

\* connect taking a startup that returned False for one that returned True
connect_waits_never(status) == FALSE

\* Client.connect: a startup that returned False is waited for on
\* _is_ready_event
connect_waits(status) == ~status

\* an operation: its kind, where it stands (open, options, startup,
\* ready_wait, call, done), the make_call it waits on and the exception it
\* raised
NewOp(kind, pc) == [kind |-> kind, pc |-> pc, call |-> 0, err |-> ""]

\* what the last step did: the step, the operation and the call it was a
\* step of, the exception it raised
Stepped(op, o, c, e) == [op |-> op, o |-> o, call |-> c, err |-> e]

\* the calls with call c over: its slot, socket and answer stay on record
Over(cs, c) == [cs EXCEPT ![c] = [@ EXCEPT !.pc = "done"]]

InitClient ==
    /\ InitObjects
    /\ InitIdle
    /\ inp = "Client"
    /\ out = Stepped("init", 0, 0, "")

\* Connection.make_call for operation o up to its await of event.wait():
\* Dispatcher.send on the writer w of the sockets ss; pc is where the
\* operation stands while it waits
CallMade(cs, os, o, pc, opcode, ss, w, r) ==
    /\ _streams' = r.streams
    /\ _last_stream_id' = r.last
    /\ calls' = Append(cs,
                       IF r.err = ""
                       THEN [input |-> opcode, pc |-> "waiting",
                             stream_id |-> r.stream_id, sock |-> Val(w),
                             widx |-> Len(ss[Val(w)].written) + 1, answer |-> 0]
                       ELSE [DoneCall EXCEPT !.input = opcode])
    /\ socks' = IF IsNone(r.written) THEN ss
                ELSE [ss EXCEPT ![Val(w)].written = Append(@, Val(r.written))]
    /\ ops' = [os EXCEPT ![o] =
                  IF r.err = "" THEN [@ EXCEPT !.pc = pc, !.call = Len(cs) + 1]
                  ELSE [@ EXCEPT !.pc = "done", !.call = 0, !.err = r.err]]

\* the wrapper of @online once connect() has returned, for a Connection
\* with the _dispatcher and a protocol with the compress function:
\* connect() itself is over, any other operation goes into its make_call
Online(op, cs, os, o, c, dispatcher, compressor) ==
    IF os[o].kind = "connect"
    THEN /\ ops' = [os EXCEPT ![o] = [@ EXCEPT !.pc = "done", !.call = 0]]
         /\ calls' = cs
         /\ out' = Stepped(op, o, c, "")
         /\ UNCHANGED <<_streams, _last_stream_id, socks>>
    ELSE IF ~dispatcher
    THEN /\ ops' = [os EXCEPT ![o] =
                       [@ EXCEPT !.pc = "done", !.call = 0, !.err = "AssertionError"]]
         /\ calls' = cs
         /\ out' = Stepped(op, o, c, "AssertionError")
         /\ UNCHANGED <<_streams, _last_stream_id, socks>>
    ELSE \E r \in {send(_streams, _last_stream_id, _prepared, compressor, _writer,
                         OpcodeOf(os[o].kind), ParamsOf(os[o].kind), Len(cs) + 1)} :
             /\ CallMade(cs, os, o, "call", OpcodeOf(os[o].kind), socks, _writer, r)
             /\ out' = Stepped(op, o, c, r.err)

\* an operation is called: Client.connect up to its first await.  A ready
\* connection lets it through, an idle one is started up, one in startup
\* is waited for.
Connect ==
    \E k \in 1..Len(OpKinds) :
        /\ Len(ops) < MaxOps
        /\ IF is_ready(_conn) \/ (in_startup(_conn) /\ ~connect_waits(FALSE))
           THEN /\ Online("connect", calls, Append(ops, NewOp(OpKinds[k], "start")),
                          Len(ops) + 1, 0, _conn._dispatcher, compress)
                /\ UNCHANGED _conn
           ELSE IF in_startup(_conn)
           THEN /\ ops' = Append(ops, NewOp(OpKinds[k], "ready_wait"))
                /\ out' = Stepped("connect", Len(ops) + 1, 0, "")
                /\ UNCHANGED <<_conn, _streams, _last_stream_id, calls, socks>>
           ELSE /\ _conn' = [_conn EXCEPT !._in_startup = TRUE]
                /\ ops' = Append(ops, NewOp(OpKinds[k], "open"))
                /\ out' = Stepped("connect", Len(ops) + 1, 0, "")
                /\ UNCHANGED <<_streams, _last_stream_id, calls, socks>>
        /\ UNCHANGED <<_is_ready_event, _paged, compress, decompress, dispatcher_vars,
                       protocol_vars, tasks, evset, inp>>

\* Connection.startup once open_connection has returned: the Dispatcher is
\* built on the socket, the listener is started, and OPTIONS is called
Opened ==
    \E o \in 1..Len(ops) :
        /\ ops[o].pc = "open"
        /\ _conn' = [_conn EXCEPT !._is_connected = TRUE, !._dispatcher = TRUE]
        /\ _reader' = Some(Len(socks) + 1)
        /\ _writer' = Some(Len(socks) + 1)
        /\ _connected' = TRUE
        /\ tasks' = Append(tasks, [st |-> "new", rd |-> 0])
        /\ _read_task' = Some(Len(tasks) + 1)
        /\ \E r \in {send(_streams, _last_stream_id, _prepared, compress,
                           Some(Len(socks) + 1), Opcode.OPTIONS, NoParams,
                           Len(calls) + 1)} :
               /\ CallMade(calls, ops, o, "options", Opcode.OPTIONS,
                           Append(socks, [state |-> "open", written |-> <<>>]),
                           Some(Len(socks) + 1), r)
               /\ out' = Stepped("opened", o, Len(calls) + 1, r.err)
        /\ UNCHANGED <<_is_ready_event, _paged, compress, decompress, _data, _running,
                       protocol_vars, evset, inp>>

\* open_connection raises: startup and connect() raise with it
Refused ==
    \E o \in 1..Len(ops) :
        /\ ops[o].pc = "open"
        /\ ops' = [ops EXCEPT ![o] = [@ EXCEPT !.pc = "done",
                                              !.err = "ConnectionRefusedError"]]
        /\ out' = Stepped("refused", o, 0, "ConnectionRefusedError")
        /\ UNCHANGED <<_conn, _is_ready_event, _paged, compress, decompress, _streams,
                       _last_stream_id, dispatcher_vars, protocol_vars, socks, tasks,
                       evset, calls, inp>>

\* Connection._listener from its start to the await in its first cycle
Listen ==
    \E t \in 1..Len(tasks) :
        /\ tasks[t].st = "new"
        /\ tasks' = [tasks EXCEPT ![t] = [st |-> "reading", rd |-> Val(_reader)]]
        /\ out' = Stepped("listen", 0, 0, "")
        /\ UNCHANGED <<client_vars, _streams, _last_stream_id, dispatcher_vars,
                       protocol_vars, socks, evset, calls, inp>>

\* what a round of the loop of _listener leaves behind, rc being what
\* Dispatcher.cycle gave for the frame f answering call c: an exception out
\* of cycle ends the listener
Cycled(t, c, f, rc) ==
    /\ _streams' = rc.streams
    /\ _data' = rc.data
    /\ _prepared' = rc._prepared
    /\ _events' = rc._events
    /\ evset' = evset \cup rc.set
    /\ calls' = [calls EXCEPT ![c] = IF @.pc = "timedout"
                                     THEN [@ EXCEPT !.pc = "done", !.answer = f]
                                     ELSE [@ EXCEPT !.answer = f]]
    /\ tasks' = IF rc.err = "" THEN tasks ELSE [tasks EXCEPT ![t] = TaskDone]
    /\ out' = Stepped("cycle", 0, c, rc.err)

\* the server answers a request it was sent and the listener reads the
\* frame: Dispatcher.cycle, then the loop of _listener up to its next await
Cycle ==
    \E t \in 1..Len(tasks), c \in 1..Len(calls) :
        /\ tasks[t].st = "reading"
        /\ calls[c].pc \in {"waiting", "timedout"}
        /\ calls[c].sock = tasks[t].rd
        /\ socks[tasks[t].rd].state = "open"
        /\ calls[c].answer = 0
        /\ \E f \in 1..Len(ServerFrames(calls[c].input)) :
               \E rc \in {_receive(_streams, _data, _prepared, _events,
                                    ResponseHeader(
                                        socks[calls[c].sock].written[calls[c].widx],
                                        ServerFrames(calls[c].input)[f]),
                                    ServerFrames(calls[c].input)[f].body)} :
                   Cycled(t, c, f, rc)
        /\ UNCHANGED <<client_vars, _last_stream_id, _connected, _running, _reader,
                       _writer, _read_task, socks, inp>>

\* what Dispatcher.end_all leaves behind, d being what its loop over the
\* streams gave
Ended_all(d) ==
    /\ _streams' = d.streams
    /\ _data' = d.data
    /\ evset' = evset \cup d.set
    /\ out' = Stepped("drop", 0, 0, d.err)

\* the peer resets the connection the listener reads from: the listener
\* ends every pending call with ConnectionDroppedError and is over
Drop ==
    \E t \in 1..Len(tasks) :
        /\ tasks[t].st = "reading"
        /\ socks[tasks[t].rd].state = "open"
        /\ socks' = [socks EXCEPT ![tasks[t].rd].state = "reset"]
        /\ \E d \in {end_streams(KeyList(_streams), 1, _streams, _data, {})} :
               Ended_all(d)
        /\ tasks' = [tasks EXCEPT ![t] = TaskDone]
        /\ UNCHANGED <<client_vars, _last_stream_id, _connected, _running, _reader,
                       _writer, _read_task, protocol_vars, calls, inp>>

\* the function startup hands on when "COMPRESSION" is in the options
HandedOn(conn, chosen, current) ==
    IF Has(conn._options, S_COMPRESSION) THEN chosen ELSE current

\* the call of STARTUP by a Connection that has made its choices
Startup(o, conn) ==
    /\ _conn' = conn
    /\ compress' = HandedOn(conn, conn._compress, compress)
    /\ decompress' = HandedOn(conn, conn._decompress, decompress)
    /\ \E r \in {send(_streams, _last_stream_id, _prepared,
                       HandedOn(conn, conn._compress, compress), _writer,
                       Opcode.STARTUP, [NoParams EXCEPT !.options = conn._options],
                       Len(calls) + 1)} :
           /\ CallMade(Over(calls, ops[o].call), ops, o, "startup", Opcode.STARTUP,
                       socks, _writer, r)
           /\ out' = Stepped("choose", o, ops[o].call, r.err)
    /\ UNCHANGED <<_is_ready_event, _paged>>

\* Connection.startup from the return of make_call(options) to its next
\* await: make_choices, the functions handed to the dispatcher and the
\* protocol, and the call of STARTUP with the options chosen
Choose(o, r) ==
    \E conn \in {make_choices(_conn, Some(r.val.v), PKZip_supported(TRUE, TRUE))} :
        Startup(o, conn)

\* Connection.startup from the return of make_call(startup) to its end,
\* then Client.connect and the wrapper of @online
Ready(o, r) ==
    /\ _conn' = [_conn EXCEPT !._is_ready = r.val.v]
    /\ _is_ready_event' = TRUE
    /\ Online("ready", Over(calls, ops[o].call), ops, o, ops[o].call,
              _conn._dispatcher, compress)
    /\ UNCHANGED <<_paged, compress, decompress>>

\* an operation ends with what its make_call returned or raised
Ended(op, cs, o, e) ==
    /\ ops' = [ops EXCEPT ![o] = [@ EXCEPT !.pc = "done", !.call = 0, !.err = e]]
    /\ calls' = cs
    /\ out' = Stepped(op, o, ops[o].call, e)
    /\ UNCHANGED <<_conn, _is_ready_event, _paged, compress, decompress, _streams,
                   _last_stream_id, socks>>

\* the code of operation o after its make_call has returned or raised r
Resumed(o, r) ==
    IF r.err # "" THEN Ended("resume", Over(calls, ops[o].call), o, r.err)
    ELSE IF ops[o].pc = "options"
    THEN IF r.val.t # "dict"
         THEN Ended("resume", Over(calls, ops[o].call), o,
                    "AssertionError")
         ELSE Choose(o, r)
    ELSE IF ops[o].pc = "startup"
    THEN IF r.val.t # "bool"
         THEN Ended("resume", Over(calls, ops[o].call), o,
                    "AssertionError")
         ELSE Ready(o, r)
    ELSE Ended("resume", Over(calls, ops[o].call), o, "")

\* Connection.make_call after event.wait() has returned: Dispatcher.retrieve,
\* then the code of the operation up to its next await
Resume ==
    \E o \in 1..Len(ops) :
        /\ ops[o].pc \in {"options", "startup", "call"}
        /\ ops[o].call \in evset
        /\ \E r \in {retrieve(_data, ops[o].call)} :
               /\ _data' = r.data
               /\ Resumed(o, r)
        /\ UNCHANGED <<_connected, _running, _reader, _writer, _read_task,
                       protocol_vars, tasks, evset, inp>>

\* Connection.make_call when wait_for gives up after REQUEST_TIMEOUT
CallTimeOut ==
    \E o \in 1..Len(ops) :
        /\ ops[o].pc \in {"options", "startup", "call"}
        /\ ops[o].call \notin evset
        /\ Ended("timeout", [calls EXCEPT ![ops[o].call] = [@ EXCEPT !.pc = "timedout"]],
                 o, "RequestTimeout")
        /\ UNCHANGED <<dispatcher_vars, protocol_vars, tasks, evset, inp>>

\* Client.connect after _is_ready_event.wait() has returned
Awake ==
    \E o \in 1..Len(ops) :
        /\ ops[o].pc = "ready_wait"
        /\ _is_ready_event
        /\ Online("awake", calls, ops, o, 0, _conn._dispatcher, compress)
        /\ UNCHANGED <<_conn, _is_ready_event, _paged, compress, decompress, dispatcher_vars,
                       protocol_vars, tasks, evset, inp>>

\* Client.connect when wait_for gives up after STARTUP_TIMEOUT
StartupTimeOut ==
    \E o \in 1..Len(ops) :
        /\ ops[o].pc = "ready_wait"
        /\ ~_is_ready_event
        /\ Ended("startup_timeout", calls, o, "StartupTimeout")
        /\ UNCHANGED <<dispatcher_vars, protocol_vars, tasks, evset, inp>>

NextClient ==
    \/ Connect
    \/ Opened
    \/ Refused
    \/ Listen
    \/ Cycle
    \/ Drop
    \/ Resume
    \/ CallTimeOut
    \/ Awake
    \/ StartupTimeOut

SpecClient == InitClient /\ [][NextClient]_vars

\* the same, where open_connection returns or raises in the end, the event
\* loop runs a coroutine whose event is set, and the timers of wait_for
\* expire; the server need not answer and nothing need be called
SpecClientFair ==
    /\ SpecClient
    /\ WF_vars(Opened \/ Refused)
    /\ WF_vars(Resume)
    /\ WF_vars(CallTimeOut)
    /\ WF_vars(Awake)
    /\ WF_vars(StartupTimeOut)

\* ------------------------------------------------ claims on the client

\* the number of frames a socket had written to it before the step
WrittenBefore(s) == IF s <= Len(socks) THEN Len(socks[s].written) ELSE 0

\* the opcode of the frame the step wrote to socket s
OpcodeWritten(s) == socks'[s].written[Len(socks'[s].written)][5]

\* before the step, the listener had read a frame of the opcode in answer
\* to a request of the opcode asked, written to socket s
Answered(s, asked, opcode) ==
    \E c \in 1..Len(calls) :
        /\ calls[c].input = asked
        /\ calls[c].sock = s
        /\ calls[c].answer # 0
        /\ ServerFrames(asked)[calls[c].answer].opcode = opcode

C11_Step ==
    \A s \in 1..Len(socks') :
        Len(socks'[s].written) > WrittenBefore(s) =>
            /\ Len(socks'[s].written) = WrittenBefore(s) + 1
            /\ WrittenBefore(s) = 0 => OpcodeWritten(s) = Opcode.OPTIONS
            /\ OpcodeWritten(s) = Opcode.STARTUP =>
                   /\ Answered(s, Opcode.OPTIONS, Opcode.SUPPORTED)
                   /\ ~IsNone(_conn'.supported_options)
            /\ OpcodeWritten(s) \in {Opcode.QUERY, Opcode.PREPARE, Opcode.EXECUTE,
                                     Opcode.REGISTER} =>
                   Answered(s, Opcode.STARTUP, Opcode.READY)

\* C11: whatever the operations called and however their steps interleave,
\* the first frame written to a socket is an OPTIONS; a STARTUP is written
\* only once the SUPPORTED answering that OPTIONS has been read and
\* make_choices has run; a QUERY, PREPARE, EXECUTE or REGISTER is written
\* only once the READY answering the STARTUP has been read.
C11_HandshakeOrdered == [][C11_Step]_vars

\* C11 witness: a query called while the connection was in startup has been
\* answered, as the third frame of the socket
C11_Witness ==
    /\ Len(ops) = 2
    /\ ops[1].pc = "done"
    /\ ops[2].kind = "query"
    /\ ops[2].pc = "done"
    /\ ops[2].err = ""
    /\ Len(socks) = 1
    /\ Len(socks[1].written) = 3
    /\ socks[1].written[3][5] = Opcode.QUERY

\* the frames of the opcode written so far, by socket and place
FramesWritten(opcode) ==
    {<<s, i>> \in (1..Len(socks)) \X (1..(2 * MaxOps + 2)) :
        i <= Len(socks[s].written) /\ socks[s].written[i][5] = opcode}

\* the connection has read the READY that answers its STARTUP
IsReady ==
    /\ _conn._is_ready
    /\ \E c \in 1..Len(calls) :
           /\ calls[c].input = Opcode.STARTUP
           /\ calls[c].answer # 0
           /\ ServerFrames(Opcode.STARTUP)[calls[c].answer].opcode = Opcode.READY

ConnectedOnce ==
    /\ Len(socks) <= 1
    /\ Cardinality(FramesWritten(Opcode.OPTIONS)) <= 1
    /\ Cardinality(FramesWritten(Opcode.STARTUP)) <= 1
    /\ Cardinality({o \in 1..Len(ops) : ops[o].pc \in {"open", "options", "startup"}}) <= 1
    /\ \A o \in 1..Len(ops) :
           /\ (ops[o].kind = "connect" /\ ops[o].pc = "done" /\ ops[o].err = "") => IsReady
           /\ ops[o].pc = "call" => IsReady

\* operation o is past its connect(): it has returned or raised, or the
\* operation is in its own make_call
Resolved(o) == Len(ops) >= o /\ ops[o].pc \in {"call", "done"}

\* C12: however many operations call connect() and however their steps
\* interleave, one socket at most is opened and one OPTIONS and one STARTUP
\* at most are written; a connect() that returns finds the connection
\* ready; and every connect() called returns or raises in the end.
C12_ConnectOnce ==
    /\ []ConnectedOnce
    /\ \A o \in 1..MaxOps : (Len(ops) >= o) ~> Resolved(o)

\* C12 witness: two connect() called one into the other have both returned
\* over one socket and one handshake
C12_Witness ==
    /\ Len(ops) = 2
    /\ ops[1].kind = "connect"
    /\ ops[2].kind = "connect"
    /\ ops[1].pc = "done"
    /\ ops[2].pc = "done"
    /\ ops[1].err = ""
    /\ ops[2].err = ""
    /\ out.op = "awake"
    /\ Len(socks) = 1
    /\ Len(socks[1].written) = 2

\* ------------------------------------------------ the event stream
\* One caller that registers for events again and again, one call after
\* the other, over a Dispatcher it closes and lets reconnect, and a server
\* that answers REGISTER and sends EVENT frames on the stream -1.

\* the requests written to one socket
MaxWritten == 2

\* a STATUS_CHANGE of the node 10.0.0.1:9042
StatusChangeFrame ==
    Frame(Opcode.EVENT,
          encode_string(S_STATUS_CHANGE) \o encode_string(S_ON)
          \o <<4, 10, 0, 0, 1>> \o encode_int(9042), "Event")

\* an EVENT with a name that is not one of Events
UnknownEventFrame == Frame(Opcode.EVENT, encode_string(S_msg), "Event")

\* the EVENT frames the server sends
EventFrames == <<StatusChangeFrame, UnknownEventFrame>>

\* the frames the server answers a REGISTER with
RegisterAnswers == <<ReadyFrame, ErrorFrame(10)>>

\* the header the server puts before an EVENT frame
EventHeader(frame) ==
    <<SERVER_SENT + 4, 0>> \o <<255, 255>> \o <<frame.opcode>>
    \o encode_int(Len(frame.body))

InitEvents ==
    /\ InitObjects
    /\ InitIdle
    /\ inp = "Events"
    /\ out = Did("init", 0, 0, 0, Nothing)

\* Client.register up to the await of event.wait() in make_call: send, after
\* its _connect when the dispatcher is not connected.  The call that has
\* ended, the socket and the listener of a connection that was closed are
\* left out of calls, socks and tasks; the Event of the new call is not set.
Register ==
    /\ \A c \in 1..Len(calls) : calls[c].pc = "done"
    /\ evset' = {}
    /\ IF _connected
       THEN /\ ~IsNone(_writer) => Len(socks[Val(_writer)].written) < MaxWritten
            /\ \E r \in {send(_streams, _last_stream_id, _prepared, compress, _writer,
                              Opcode.REGISTER,
                              [NoParams EXCEPT !.events = <<S_STATUS_CHANGE>>], 1)} :
                   SendDone(<<NewCall(Opcode.REGISTER)>>, 1, socks, _writer, r)
            /\ UNCHANGED <<client_vars, dispatcher_vars, protocol_vars, tasks, inp>>
       ELSE /\ _reader' = Some(1)
            /\ _writer' = Some(1)
            /\ _connected' = TRUE
            /\ tasks' = <<[st |-> "new", rd |-> 0]>>
            /\ _read_task' = Some(1)
            /\ \E r \in {send(_streams, _last_stream_id, _prepared, compress, Some(1),
                              Opcode.REGISTER,
                              [NoParams EXCEPT !.events = <<S_STATUS_CHANGE>>], 1)} :
                   SendDone(<<NewCall(Opcode.REGISTER)>>, 1,
                            <<[state |-> "open", written |-> <<>>]>>, Some(1), r)
            /\ UNCHANGED <<client_vars, _data, _running, protocol_vars, inp>>

\* the server answers a REGISTER and the listener reads the frame
Answer ==
    \E t \in 1..Len(tasks), c \in 1..Len(calls), f \in 1..Len(RegisterAnswers) :
        /\ tasks[t].st = "reading"
        /\ socks[tasks[t].rd].state = "open"
        /\ calls[c].pc = "waiting"
        /\ calls[c].answer = 0
        /\ \E rc \in {_receive(_streams, _data, _prepared, _events,
                                ResponseHeader(socks[calls[c].sock].written[calls[c].widx],
                                               RegisterAnswers[f]),
                                RegisterAnswers[f].body)} :
               Received(t, c, f, rc)

\* the server sends an EVENT frame and the listener reads it: _receive, then
\* the loop of _listener up to its next await
Push ==
    \E t \in 1..Len(tasks), f \in 1..Len(EventFrames) :
        /\ tasks[t].st = "reading"
        /\ socks[tasks[t].rd].state = "open"
        /\ \E rc \in {_receive(_streams, _data, _prepared, _events,
                                EventHeader(EventFrames[f]), EventFrames[f].body)} :
               /\ _streams' = rc.streams
               /\ _data' = rc.data
               /\ _prepared' = rc._prepared
               /\ _events' = rc._events
               /\ evset' = evset \cup rc.set
               /\ tasks' = IF rc.err = "" THEN LoopTop(tasks, t, _connected, _reader)
                           ELSE [tasks EXCEPT ![t] = TaskDone]
               /\ out' = Did("event", 0, 0, f, [err |-> rc.err, val |-> <<>>])
        /\ UNCHANGED <<client_vars, _last_stream_id, _connected, _running, _reader,
                       _writer, _read_task, socks, calls, inp>>

NextEvents ==
    \/ Register
    \/ ListenerStart
    \/ Answer
    \/ Push
    \/ Retrieve
    \/ Close

SpecEvents == InitEvents /\ [][NextEvents]_vars

\* the event of an EVENT frame, as EventMessage.create gives it
EventOf(f) == ResponseMessage_create("EventMessage", SBytes(EventFrames[f].body))

\* C21: the queue never holds more than EVENTS_QUEUE_MAXSIZE events, and a
\* register that returns returns the one queue of the protocol; a step that
\* reads a frame of the stream -1 leaves the registry, the data and the
\* events that are set as they were, and puts the event of the frame at the
\* end of the queue when there is a queue with room and the frame decodes,
\* and leaves the queue as it was otherwise
C21_Step ==
    /\ ~IsNone(_events') =>
           /\ Len(Val(_events').items) <= EVENTS_QUEUE_MAXSIZE
           /\ Val(_events').id = 1
    /\ (out'.op = "retrieve" /\ out'.err = "") =>
           /\ ~IsNone(_events')
           /\ out'.val = Result("Queue", Val(_events').id)
    /\ out'.op = "event" =>
           /\ _streams' = _streams
           /\ _data' = _data
           /\ evset' = evset
           /\ _events' =
                  IF /\ ~IsNone(_events)
                     /\ EventOf(out'.frame).err = ""
                     /\ Len(Val(_events).items) < EVENTS_QUEUE_MAXSIZE
                  THEN Some([Val(_events) EXCEPT !.items =
                                Append(@, EventOf(out'.frame).val.event)])
                  ELSE _events

C21_EventsQueued == [][C21_Step]_vars

\* an EVENT frame was read with a call waiting on a live slot and the queue
\* full, and was dropped
C21_Witness ==
    /\ out.op = "event"
    /\ out.frame = 1
    /\ out.err = "InternalDriverError"
    /\ ~IsNone(_events)
    /\ Len(Val(_events).items) = EVENTS_QUEUE_MAXSIZE
    /\ Val(_events).items[1].cls = "StatusChange"
    /\ \E c \in 1..Len(calls) : calls[c].pc = "waiting" /\ c \notin evset
    /\ _streams # <<>>

\* ------------------------------------------------ the end of the read loop

\* the last step ended the loop of a listener: on a reset, on a clean end of
\* the stream, or on an exception of _receive
LoopEnded ==
    \/ out.op \in {"reset", "eof"}
    \/ out.op = "receive" /\ out.err # ""

\* C22: when the loop of a listener has ended on a reset, on a clean end of
\* the stream or on an exception of _receive, no call is left waiting on an
\* event that is not set.
C22_LoopEndCompletesAll == LoopEnded => Pending = {}

\* ------------------------------------------------ the order of the writes
\* The calls are numbered in the order in which send was invoked for them.

\* the frame of call c as it stands on its socket
FrameOf(cs, ss, c) == ss[cs[c].sock].written[cs[c].widx]

\* the calls whose frame is on a socket
Written(cs) == {c \in 1..Len(cs) : cs[c].sock # 0}

C23_Step ==
    /\ \A s \in 1..Len(socks) :
           \/ socks'[s].written = socks[s].written
           \/ /\ out'.op = "send"
              /\ out'.err = ""
              /\ Len(socks'[s].written) = Len(socks[s].written) + 1
              /\ SubSeq(socks'[s].written, 1, Len(socks[s].written)) = socks[s].written
              /\ \A u \in 1..Len(socks) : u # s => socks'[u].written = socks[u].written
    /\ \A a \in Written(calls'), b \in Written(calls') :
           (a < b /\ calls'[a].sock = calls'[b].sock) => calls'[a].widx < calls'[b].widx
    /\ \A c \in Written(calls') :
           /\ calls'[c].widx \in 1..Len(socks'[calls'[c].sock].written)
           /\ SubSeq(FrameOf(calls', socks', c), 3, 4) = encode_short(calls'[c].stream_id)
           /\ FrameOf(calls', socks', c)[5] = CallInputs[calls'[c].input].opcode
           /\ c \in Written(calls) => FrameOf(calls', socks', c) = FrameOf(calls, socks, c)

\* C23: a send that succeeds puts the whole frame of its request at the end
\* of what was written to the socket, with no other write in the same step;
\* what was written stays as it is; and of two requests written to the same
\* socket the one for which send was invoked first stands first.
C23_WritesInOrder == [][C23_Step]_vars

\* two calls wait for their answers, their frames on the same socket one
\* after the other
C23_Witness ==
    /\ Len(calls) = 2
    /\ calls[1].pc = "waiting"
    /\ calls[2].pc = "waiting"
    /\ calls[1].sock = calls[2].sock
    /\ calls[1].widx = 1
    /\ calls[2].widx = 2
    /\ out.op = "send"
    /\ out.call = 2

\* ------------------------------------------------ results of kind Rows
\* build_response applied to the answer of a QUERY: a RESULT of kind Rows
\* with one INT column, whose cells are values or null, with or without a
\* paging state.  inp is the result the server sent, out what the call gave.

\* the rows of a result
MaxRows == 3

\* the cells the server sends: null ([int] -1) or the bytes of a value
CellInputs == {None, Some(<<>>), Some(<<0, 0, 0, 7>>), Some(<<255, 255, 255, 254>>)}

\* the paging state the server sends with HAS_MORE_PAGES
S_page == <<112, 49>>

\* [int n][n bytes], or [int -1] for null
WireCell(cell) ==
    IF IsNone(cell) THEN <<255, 255, 255, 255>> ELSE encode_bytes(Val(cell))

RECURSIVE WireCells(_, _)
WireCells(cells, i) ==
    IF i > Len(cells) THEN <<>> ELSE WireCell(cells[i]) \o WireCells(cells, i + 1)

\* <kind><flags><columns_count>[<paging_state>]<global_table_spec><col_spec>
\* <rows_count><rows>: one column of type INT
RowsWire(cells, more_pages) ==
    encode_int(Kind.ROWS)
    \o encode_int(ResultFlags.GLOBAL_TABLES_SPEC
                  + (IF more_pages THEN ResultFlags.HAS_MORE_PAGES ELSE 0))
    \o encode_int(1)
    \o (IF more_pages THEN encode_bytes(S_page) ELSE <<>>)
    \o encode_string(S_ks) \o encode_string(S_tbl)
    \o encode_string(S_col) \o encode_short(OptionID.INT)
    \o encode_int(Len(cells)) \o WireCells(cells, 1)

InitRows ==
    /\ InitObjects
    /\ InitIdle
    /\ inp \in [cells : UNION {[1..n -> CellInputs] : n \in 1..MaxRows},
                 more_pages : BOOLEAN]
    /\ out = [done |-> FALSE, err |-> "", val |-> <<>>]

\* V4Protocol.build_response, as the response handler of a QUERY
DecodeRows ==
    /\ ~out.done
    /\ \E r \in {build_response(Message(Opcode.QUERY, 0, NoParams, None),
                                 Opcode.RESULT, RowsWire(inp.cells, inp.more_pages),
                                 _prepared, _events)} :
           /\ out' = [done |-> TRUE, err |-> r.err, val |-> r.val]
           /\ _prepared' = r._prepared
           /\ _events' = r._events
    /\ UNCHANGED <<client_vars, _streams, _last_stream_id, dispatcher_vars, env_vars, inp>>

NextRows == DecodeRows

SpecRows == InitRows /\ [][NextRows]_vars

\* the value a cell of the INT column stands for
CellValue(cell) ==
    IF IsNone(cell) THEN [t |-> "NoneType", v |-> None]
    ELSE [t |-> "int", v |-> SignedBE(Val(cell))]

\* C24: a result without a paging state decodes to its rows, a null cell
\* giving None and every other cell its value.
C24_NullCellDecodes ==
    (out.done /\ ~inp.more_pages) =>
        /\ out.err = ""
        /\ out.val.t = "Rows"
        /\ Len(out.val.v.data) = Len(inp.cells)
        /\ \A r \in 1..Len(inp.cells) : out.val.v.data[r] = <<CellValue(inp.cells[r])>>

\* C25: a result with HAS_MORE_PAGES and no null cell decodes to its rows
\* together with the paging state the server sent.
C25_PagingStateSurfaced ==
    (out.done /\ inp.more_pages /\ \A r \in 1..Len(inp.cells) : ~IsNone(inp.cells[r])) =>
        /\ out.err = ""
        /\ out.val.t = "PagingRows"
        /\ out.val.v.paging_state = S_page
        /\ \A r \in 1..Len(inp.cells) : out.val.v.data[r] = <<CellValue(inp.cells[r])>>

\* ------------------------------------------------ bound values and cells
\* A value is bound to a prepared statement under the type of its column and
\* comes back as the cell of a row of that column.

\* the integers bound: every value up to this magnitude, and the ends of the
\* sixteen bits
MaxMagnitude == 129

IntegerTypes ==
    {OptionID.TINYINT, OptionID.SMALLINT, OptionID.INT, OptionID.BIGINT, OptionID.VARINT}

IntegerInputs ==
    (-MaxMagnitude..MaxMagnitude) \cup {-32769, -32768, 32767, 32768}

\* the decimals bound: digits up to MaxCoeff under either sign, exponents up
\* to MaxExponent on either side
MaxCoeff == 12

MaxExponent == 2

DecimalInputs ==
    [sign : 0..1, coeff : 0..MaxCoeff, exponent : -MaxExponent..MaxExponent]

ValueInputs ==
    [option_id : IntegerTypes, value : {[t |-> "int", v |-> n] : n \in IntegerInputs}]
    \cup [option_id : {OptionID.DECIMAL},
          value : {[t |-> "Decimal", v |-> d] : d \in DecimalInputs}]

InitValues ==
    /\ InitObjects
    /\ InitIdle
    /\ inp \in ValueInputs
    /\ out = [op |-> "", err |-> "", val |-> <<>>]

\* the turn of the loop of encode_query_parameters for the value
EncodeValue ==
    /\ out.op = ""
    /\ \E r \in {encode_param(inp.option_id, inp.value)} :
           out' = [op |-> "encode", err |-> r.err, val |-> r.val]
    /\ UNCHANGED <<client_vars, _streams, _last_stream_id, _prepared, _events,
                   dispatcher_vars, env_vars, inp>>

\* the turn of the loops of ResultMessage.build for the cell with these bytes
DecodeValue ==
    /\ out.op = "encode"
    /\ out.err = ""
    /\ \E r \in {Then(decode_int_bytes_must(SBytes(out.val)), LAMBDA value :
                     CellAt(decode_cell(inp.option_id, value.val), value.sb))} :
           out' = [op |-> "decode", err |-> r.err, val |-> r.val]
    /\ UNCHANGED <<client_vars, _streams, _last_stream_id, _prepared, _events,
                   dispatcher_vars, env_vars, inp>>

NextValues == EncodeValue \/ DecodeValue

SpecValues == InitValues /\ [][NextValues]_vars

\* the signed range of an integer type
InSignedRange(option_id, v) ==
    IF option_id = OptionID.TINYINT THEN v >= -128 /\ v <= 127
    ELSE IF option_id = OptionID.SMALLINT THEN v >= -32768 /\ v <= 32767
    ELSE TRUE

\* C26: an integer in the signed range of its type is encoded without an
\* error, and the cell decoded from those bytes is the integer.
C26_IntegerRoundTrip ==
    (inp.option_id \in IntegerTypes /\ InSignedRange(inp.option_id, inp.value.v)) =>
        /\ out.op # "" => out.err = ""
        /\ out.op = "decode" => out.val = [t |-> "int", v |-> inp.value.v]

\* C27: a decimal of either sign is encoded without an error, and the cell
\* decoded from those bytes has its unscaled value, sign included, and its
\* scale.
C27_DecimalRoundTrip ==
    inp.option_id = OptionID.DECIMAL =>
        /\ out.op # "" => out.err = ""
        /\ out.op = "decode" =>
               /\ out.val.t = "Decimal"
               /\ out.val.v.scale = 0 - inp.value.v.exponent
               /\ out.val.v.unscaled = (IF inp.value.v.sign = 1 THEN 0 - inp.value.v.coeff
                                        ELSE inp.value.v.coeff)

\* ------------------------------------------------ bound values of type time
\* The nanoseconds since midnight bound to a column of type time, as wide
\* integers around zero and around the end of the day.

\* the values bound lie within MaxNear of zero and of the end of the day
MaxNear == 30

\* 60 * 60 * 24 * 10 ** 9 = 86400000000000 = 0x4E94914F0000
DayNanos == <<78, 148, 145, 79, 0, 0>>

\* the magnitude mag plus n, for 0 <= n < 2 ** 23
RECURSIVE MagPlus(_, _)
MagPlus(mag, n) ==
    IF n = 0 THEN mag
    ELSE IF mag = <<>> THEN StripZeros(encode_int(n))
    ELSE LET t == mag[Len(mag)] + n
         IN  Append(MagPlus(SubSeq(mag, 1, Len(mag) - 1), t \div 256), t % 256)

\* 86400000000000 + k, for -65536 <= k
NearDayEnd(k) == MagPlus(<<78, 148, 145, 78, 0, 0>>, 65536 + k)

TimeInputs ==
    {v \in [neg : BOOLEAN,
            mag : {WideOf(k).mag : k \in 0..MaxNear}
                  \cup {NearDayEnd(k) : k \in -MaxNear..MaxNear}] :
        v.neg => v.mag # <<>>}

InitTime ==
    /\ InitObjects
    /\ InitIdle
    /\ inp \in TimeInputs
    /\ out = [op |-> "", err |-> "", val |-> <<>>]

\* the turn of the loop of encode_query_parameters for an int under a column
\* of type time
EncodeTime ==
    /\ out.op = ""
    /\ \E r \in {encode_time(inp)} :
           out' = [op |-> "encode", err |-> r.err, val |-> r.val]
    /\ UNCHANGED <<client_vars, _streams, _last_stream_id, _prepared, _events,
                   dispatcher_vars, env_vars, inp>>

NextTime == EncodeTime

SpecTime == InitTime /\ [][NextTime]_vars

\* 0 <= v < 86400000000000
InDay(v) == (~v.neg \/ v.mag = <<>>) /\ v.mag # DayNanos /\ MagLE(v.mag, DayNanos)

\* C28: a time is encoded as [int 8][signed 64-bit v] when
\* 0 <= v < 86400000000000, and rejected with BadInputException otherwise.
C28_TimeRange ==
    out.op = "encode" =>
        IF InDay(inp)
        THEN out.err = "" /\ out.val = encode_int(8) \o PadLeft(inp.mag, 8)
        ELSE out.err = "BadInputException"

\* ------------------------------------------------ the reads of the listener
\* One caller that sends a QUERY after the other, a server that answers each
\* with a frame, a transport that hands the bytes of the answers to the
\* StreamReader in segments of any size, and the listener that reads them
\* with read(9) and read(length).  A socket has, besides its state and the
\* requests written to it, the frames the server sent (sent), their bytes on
\* the way (wire) and the bytes in the buffer of the StreamReader (buffer).

\* the frames the server answers a QUERY with
ReadAnswers == <<VoidFrame, ErrorFrame(8704)>>

InitReads ==
    /\ InitObjects
    /\ InitIdle
    /\ inp = "Reads"
    /\ out = Did("init", 0, 0, 0, Nothing)

\* StreamReader.read(n) with data or n = 0: at most n bytes of the buffer, as
\* soon as it holds one; read(0) returns b"" at once
read(buffer, n) ==
    [data |-> SubSeq(buffer, 1, IF n < Len(buffer) THEN n ELSE Len(buffer)),
     buffer |-> SubSeq(buffer, (IF n < Len(buffer) THEN n ELSE Len(buffer)) + 1,
                       Len(buffer))]

\* Connection.make_call for a QUERY up to the await of event.wait(): send,
\* after its _connect when the dispatcher is not connected.  The call that
\* has ended, the socket and the listener of a connection that was closed
\* are left out of calls, socks and tasks; the Event of the new call is not
\* set.
Ask ==
    /\ \A c \in 1..Len(calls) : calls[c].pc = "done"
    /\ evset' = {}
    /\ IF _connected
       THEN /\ ~IsNone(_writer) => Len(socks[Val(_writer)].written) < MaxWritten
            /\ \E r \in {send(_streams, _last_stream_id, _prepared, compress, _writer,
                              CallInputs[1].opcode, CallInputs[1].params, 1)} :
                   SendDone(<<NewCall(1)>>, 1, socks, _writer, r)
            /\ UNCHANGED <<client_vars, dispatcher_vars, protocol_vars, tasks, inp>>
       ELSE /\ _reader' = Some(1)
            /\ _writer' = Some(1)
            /\ _connected' = TRUE
            /\ tasks' = <<[st |-> "new", rd |-> 0]>>
            /\ _read_task' = Some(1)
            /\ \E r \in {send(_streams, _last_stream_id, _prepared, compress, Some(1),
                              CallInputs[1].opcode, CallInputs[1].params, 1)} :
                   SendDone(<<NewCall(1)>>, 1,
                            <<[state |-> "open", written |-> <<>>, sent |-> <<>>,
                               wire |-> <<>>, buffer |-> <<>>]>>, Some(1), r)
            /\ UNCHANGED <<client_vars, _data, _running, protocol_vars, inp>>

\* the server answers a request it was sent
Serve ==
    \E c \in 1..Len(calls), f \in 1..Len(ReadAnswers) :
        /\ calls[c].pc = "waiting"
        /\ calls[c].answer = 0
        /\ socks[calls[c].sock].state = "open"
        /\ \E bs \in {ResponseHeader(socks[calls[c].sock].written[calls[c].widx],
                                      ReadAnswers[f]) \o ReadAnswers[f].body} :
               socks' = [socks EXCEPT ![calls[c].sock].sent = Append(@, bs),
                                      ![calls[c].sock].wire = @ \o bs]
        /\ calls' = [calls EXCEPT ![c].answer = f]
        /\ UNCHANGED <<client_vars, _streams, _last_stream_id, dispatcher_vars,
                       protocol_vars, tasks, evset, inp, out>>

\* a segment of k bytes reaches the StreamReader
Arrive ==
    \E s \in 1..Len(socks) :
        /\ socks[s].state = "open"
        /\ \E k \in 1..Len(socks[s].wire) :
               socks' = [socks EXCEPT
                            ![s].buffer = @ \o SubSeq(socks[s].wire, 1, k),
                            ![s].wire = SubSeq(@, k + 1, Len(@))]
        /\ UNCHANGED <<client_vars, _streams, _last_stream_id, dispatcher_vars,
                       protocol_vars, tasks, evset, calls, inp, out>>

\* Dispatcher._receive from the return of read(9) to the await of
\* read(length); struct.error of decode_header ends the listener under
\* "except BaseException"
ReadHead ==
    \E t \in 1..Len(tasks) :
        /\ tasks[t].st = "reading"
        /\ socks[tasks[t].rd].state = "open"
        /\ socks[tasks[t].rd].buffer # <<>>
        /\ \E rd \in {read(socks[tasks[t].rd].buffer, 9)} :
               /\ socks' = [socks EXCEPT ![tasks[t].rd].buffer = rd.buffer]
               /\ tasks' = [tasks EXCEPT ![t] =
                               IF decode_header(rd.data).err # "" THEN TaskDone
                               ELSE [st |-> "body", rd |-> tasks[t].rd, head |-> rd.data]]
               /\ out' = Did("head", 0, 0, 0,
                             [err |-> decode_header(rd.data).err, val |-> rd.data])
        /\ UNCHANGED <<client_vars, _streams, _last_stream_id, dispatcher_vars,
                       protocol_vars, evset, calls, inp>>

\* Dispatcher._receive from the return of read(length) on, then the loop of
\* _listener up to its next await
ReadBody ==
    \E t \in 1..Len(tasks) :
        /\ tasks[t].st = "body"
        /\ socks[tasks[t].rd].state = "open"
        /\ decode_header(tasks[t].head).length = 0 \/ socks[tasks[t].rd].buffer # <<>>
        /\ \E rd \in {read(socks[tasks[t].rd].buffer,
                           decode_header(tasks[t].head).length)} :
           \E rc \in {_receive(_streams, _data, _prepared, _events, tasks[t].head,
                               rd.data)} :
               /\ socks' = [socks EXCEPT ![tasks[t].rd].buffer = rd.buffer]
               /\ _streams' = rc.streams
               /\ _data' = rc.data
               /\ _prepared' = rc._prepared
               /\ _events' = rc._events
               /\ evset' = evset \cup rc.set
               /\ tasks' = IF rc.err = "" THEN LoopTop(tasks, t, _connected, _reader)
                           ELSE [tasks EXCEPT ![t] = TaskDone]
               /\ out' = Did("body", 0, 0, 0,
                             [err |-> rc.err, val |-> tasks[t].head \o rd.data])
        /\ UNCHANGED <<client_vars, _last_stream_id, _connected, _running, _reader,
                       _writer, _read_task, calls, inp>>

NextReads ==
    \/ Ask
    \/ ListenerStart
    \/ Serve
    \/ Arrive
    \/ ReadHead
    \/ ReadBody
    \/ Retrieve
    \/ Close

SpecReads == InitReads /\ [][NextReads]_vars

\* the frames the server has sent on the socket the dispatcher reads
SentFrames ==
    IF IsNone(_reader) THEN {}
    ELSE {socks[Val(_reader)].sent[i] : i \in 1..Len(socks[Val(_reader)].sent)}

\* C29: what read(9) returns is the 9-byte header of a frame the server
\* sent, and the header with what read(length) returns is that whole frame.
C29_ReadsWholeFrames ==
    /\ out.op = "head" => \E f \in SentFrames : out.val = SubSeq(f, 1, 9)
    /\ out.op = "body" => out.val \in SentFrames

\* ------------------------------------------------ a send that raises

\* C30: a send that raises leaves in the registry exactly the ids it held
\* before the call.
C30_Step ==
    (out'.op = "send" /\ out'.err # "") =>
        Keys(_streams') = Keys(_streams)

C30_FailedSendLeavesNoSlot == [][C30_Step]_vars

\* ------------------------------------------------ events nobody can take

\* C31: a step that reads an EVENT frame while nothing is registered, or
\* while the queue holds EVENTS_QUEUE_MAXSIZE events, leaves the listener
\* in its loop, waiting for the next frame.
C31_Step ==
    (/\ out'.op = "event"
     /\ IsNone(_events) \/ Len(Val(_events).items) >= EVENTS_QUEUE_MAXSIZE) =>
        \E t \in 1..Len(tasks') : tasks'[t].st = "reading"

C31_EventKeepsLoop == [][C31_Step]_vars

\* ------------------------------------------------ the client closed
\* The client at work, with close() called on it at any time.

\* Client.close: Connection.close closes the dispatcher (the writer is
\* closed, _connected and _running are dropped) and cancels the listener,
\* which ends under "except asyncio.CancelledError"; no field of the
\* Connection is written
ClientClose ==
    /\ socks' = IF _conn._dispatcher THEN WriterClosed ELSE socks
    /\ _connected' = IF _conn._dispatcher THEN FALSE ELSE _connected
    /\ _running' = IF _conn._dispatcher THEN FALSE ELSE _running
    /\ tasks' = [t \in 1..Len(tasks) |-> TaskDone]
    /\ out' = Stepped("close", 0, 0, "")
    /\ UNCHANGED <<client_vars, _streams, _last_stream_id, _data, _reader, _writer,
                   _read_task, protocol_vars, evset, calls, inp>>

NextClose == NextClient \/ ClientClose

SpecClose == InitClient /\ [][NextClose]_vars

\* C32: once close() has returned, is_connected and is_ready are both false.
C32_ClosedIsNotReady ==
    out.op = "close" => ~_conn._is_connected /\ ~is_ready(_conn)

\* ------------------------------------------------ a negotiation that failed

\* an operation is in Connection.startup
Negotiating == \E o \in 1..Len(ops) : ops[o].pc \in {"open", "options", "startup"}

\* C33: a connect() called while the connection is not ready and no
\* startup is under way starts a negotiation of its own; it does not wait
\* on _is_ready_event.
C33_Step ==
    (out'.op = "connect" /\ ~is_ready(_conn) /\ ~Negotiating) =>
        ops'[out'.o].pc = "open"

C33_FailedStartupRetried == [][C33_Step]_vars

\* ------------------------------------------------ every call ends
\* The dispatcher at work, where open_connection returns in the end, the
\* event loop runs a caller whose event is set, and the timer of wait_for
\* expires; the server need not answer and no call need be made.
SpecFair ==
    /\ Spec
    /\ WF_vars(Connected)
    /\ WF_vars(Retrieve)
    /\ WF_vars(TimeOut)

\* call c has returned or raised
Completed(c) == Len(calls) >= c /\ calls[c].pc \in {"done", "timedout"}

\* C34: every make_call that is made returns or raises in the end,
\* whatever the server sends or fails to send.
C34_EveryCallEnds == \A c \in 1..MaxCalls : (Len(calls) >= c) ~> Completed(c)

\* C34 witness: a call the server never answered has raised RequestTimeout
C34_Witness ==
    /\ out.op = "timeout"
    /\ out.err = "RequestTimeout"
    /\ calls[out.call].pc = "timedout"
    /\ calls[out.call].answer = 0
    /\ \A c \in 1..Len(calls) : Completed(c)

\* ------------------------------------------------ claims on the registry

\* the id the scan starts from, and how far id j lies ahead of it, going
\* round from maxstream to 0
ScanStart == IF IsNone(out.last) THEN 0 ELSE (Val(out.last) + 1) % (maxstream + 1)

Ahead(j) == (j - ScanStart + maxstream + 1) % (maxstream + 1)

\* C35: the id an allocation issues is the first id that is not live going
\* forward from the id after the last one issued, round from the last id to
\* 0: every id between that start and the id issued is live.  So an id that
\* was removed behind the cursor is not issued while an id ahead is free.
C35_FirstFreeForward ==
    (out.op = "create" /\ out.err = "") =>
        /\ out.id \in 0..maxstream
        /\ out.id \notin out.live
        /\ \A j \in 0..maxstream : Ahead(j) < Ahead(out.id) => j \in out.live

\* C35 witness: an allocation stepped over the live id after the cursor and
\* went round past the end to an id that had been removed, while a lower id
\* was free as well
C35_Witness ==
    /\ out.op = "create"
    /\ out.err = ""
    /\ ~IsNone(out.last)
    /\ out.id < Val(out.last)
    /\ ScanStart \in out.live
    /\ \E j \in 0..maxstream : j \notin out.live /\ Ahead(j) > Ahead(out.id)
    /\ \E j \in 0..maxstream : j \notin out.live /\ j > out.id /\ j < Val(out.last)

\* C36: an allocation ends.  With more than maxstream ids live it raises
\* MaximumStreamsException and leaves the registry and the cursor as they
\* were; otherwise it issues an id that was not live, enters it with an
\* empty slot and moves the cursor to it.
C36_Step ==
    out'.op = "create" =>
        IF Len(_streams) > maxstream
        THEN /\ out'.err = "MaximumStreamsException"
             /\ _streams' = _streams
             /\ _last_stream_id' = _last_stream_id
        ELSE /\ out'.err = ""
             /\ out'.id \notin Keys(_streams)
             /\ _streams' = Put(_streams, out'.id, None)
             /\ _last_stream_id' = Some(out'.id)

C36_AllocateEnds == [][C36_Step]_vars

\* C36 witness: an allocation on a registry with every id live has raised
C36_Witness ==
    /\ out.op = "create"
    /\ out.err = "MaximumStreamsException"
    /\ Cardinality(out.live) = maxstream + 1
    /\ Keys(_streams) = out.live

\* C37: an update of an id that is not in the registry, an update with None
\* and a remove of an id that is not in the registry raise
\* InternalDriverError and leave the registry as it was.
C37_Step ==
    /\ (out'.op = "update" /\ (~Has(_streams, out'.arg) \/ IsNone(out'.store))) =>
           /\ out'.err = "InternalDriverError"
           /\ _streams' = _streams
           /\ _last_stream_id' = _last_stream_id
    /\ (out'.op = "remove" /\ ~Has(_streams, out'.arg)) =>
           /\ out'.err = "InternalDriverError"
           /\ _streams' = _streams
           /\ _last_stream_id' = _last_stream_id

C37_FailuresChangeNothing == [][C37_Step]_vars

\* C37 witness: an update with None of an id that is live, with a store
\* attached, has raised
C37_Witness ==
    /\ out.op = "update"
    /\ out.err = "InternalDriverError"
    /\ IsNone(out.store)
    /\ Has(_streams, out.arg)
    /\ ~IsNone(Get(_streams, out.arg))

\* ------------------------------------------------ paging
\* A Client whose connection is ready, where queries are executed and
\* pages asked for by paging state.  The server answers a QUERY with a
\* result without more pages or with one that carries a paging state, which
\* build_response gives back as a PagingRows; the Client keeps the request
\* of such a result in _paged until page_ is called with its state.

\* the most operations called on the ready client
MaxPaging == 4

\* the paging states a server sends and a caller passes
PagingStates == {S_page, <<112, 50>>}

\* the frames startup has written: OPTIONS on stream 0, STARTUP with
\* CQL_VERSION 3.0.0 on stream 1
HandshakeWritten ==
    << <<4, 0, 0, 0, Opcode.OPTIONS, 0, 0, 0, 0>>,
       <<4, 0, 0, 1, Opcode.STARTUP>> \o encode_int(22) \o encode_short(1)
       \o encode_string(S_CQL_VERSION) \o encode_string(S_3_0_0) >>

\* the Client after connect() has returned on a server that offers no
\* compression: both calls of startup are over, the listener reads
InitPaging ==
    /\ _streams = <<>>
    /\ _last_stream_id = Some(1)
    /\ _data = <<>>
    /\ _connected = TRUE
    /\ _running = FALSE
    /\ _reader = Some(1)
    /\ _writer = Some(1)
    /\ _read_task = Some(1)
    /\ _prepared = <<>>
    /\ _events = None
    /\ socks = <<[written |-> HandshakeWritten, state |-> "open"]>>
    /\ tasks = <<[st |-> "reading", rd |-> 1]>>
    /\ evset = {1, 2}
    /\ calls = <<[input |-> Opcode.OPTIONS, pc |-> "done", stream_id |-> 0,
                  sock |-> 1, widx |-> 1, answer |-> 2],
                 [input |-> Opcode.STARTUP, pc |-> "done", stream_id |-> 1,
                  sock |-> 1, widx |-> 2, answer |-> 1]>>
    /\ compress = None
    /\ decompress = None
    /\ _conn = [NewConnection(FALSE) EXCEPT
                    !._is_ready = TRUE, !._in_startup = TRUE,
                    !._is_connected = TRUE, !._dispatcher = TRUE,
                    !.supported_options =
                        Some(<<[k |-> S_CQL_VERSION, v |-> <<S_3_4_4>>]>>)]
    /\ _is_ready_event = TRUE
    /\ _paged = <<>>
    /\ ops = <<>>
    /\ inp = "Paging"
    /\ out = Stepped("init", 0, 0, "")

\* the request kept for a paging state: the request handler, named by its
\* opcode, and the params
Request(opcode, params) == [handler |-> opcode, params |-> params]

\* an execute or page_ under way: the paging state page_ was called with,
\* the request it made (None when it made none) and the paging state of
\* the PagingRows it returned
PagingOp(kind, state, req) ==
    [kind |-> kind, pc |-> "start", call |-> 0, err |-> "", state |-> state,
     req |-> req, res |-> None]

\* page_ reading the request of the state and leaving it in _paged
_paged_get(paged, paging_state) == paged

\* "self._paged.pop(paging_state)" in page_
_paged_pop(paged, paging_state) == Del(paged, paging_state)

\* Client._paging: "self._paged[result.paging_state] = (request_handler, params)"
_paging(paged, paging_state, req) == Put(paged, paging_state, req)

\* Client.execute of a query string up to the await in make_call
ExecuteQuery ==
    /\ Len(ops) < MaxPaging
    /\ \E r \in {send(_streams, _last_stream_id, _prepared, compress, _writer,
                       Opcode.QUERY, ParamsOf("query"), Len(calls) + 1)} :
           /\ CallMade(calls,
                       Append(ops, PagingOp("execute", None,
                                            Some(Request(Opcode.QUERY,
                                                         ParamsOf("query"))))),
                       Len(ops) + 1, "call", Opcode.QUERY, socks, _writer, r)
           /\ out' = Stepped("execute", Len(ops) + 1, 0, r.err)
    /\ UNCHANGED <<_conn, _is_ready_event, _paged, compress, decompress,
                   dispatcher_vars, protocol_vars, tasks, evset, inp>>

\* Client.page_ up to its raise or to the await in make_call
Page ==
    \E p \in PagingStates :
        /\ Len(ops) < MaxPaging
        /\ IF ~Has(_paged, p)
           THEN /\ ops' = Append(ops, [PagingOp("page", Some(p), None) EXCEPT
                                          !.pc = "done",
                                          !.err = "InternalDriverError"])
                /\ out' = Stepped("page", Len(ops) + 1, 0, "InternalDriverError")
                /\ UNCHANGED <<_paged, _streams, _last_stream_id, socks, calls>>
           ELSE \E r \in {send(_streams, _last_stream_id, _prepared, compress,
                                _writer, Get(_paged, p).handler,
                                Get(_paged, p).params, Len(calls) + 1)} :
                    /\ _paged' = _paged_pop(_paged, p)
                    /\ CallMade(calls,
                                Append(ops, PagingOp("page", Some(p),
                                                     Some(Get(_paged, p)))),
                                Len(ops) + 1, "call", Get(_paged, p).handler,
                                socks, _writer, r)
                    /\ out' = Stepped("page", Len(ops) + 1, 0, r.err)
        /\ UNCHANGED <<_conn, _is_ready_event, compress, decompress,
                       dispatcher_vars, protocol_vars, tasks, evset, inp>>

\* a PagingRows with the paging state, as build_response gives it
PagingRows(paging_state) ==
    [err |-> "", val |-> [t |-> "PagingRows", v |-> paging_state],
     _prepared |-> _prepared, _events |-> _events]

\* Dispatcher._receive for a result with more pages that answers the
\* request of the stream
ReceivePaged(rm, data, prepared, events, paging_state) ==
    IF rm.err # "" THEN ReceiveOut(rm.err, rm.streams, data, prepared, events, {})
    ELSE ReceiveStore(Val(rm.store).event, PagingRows(paging_state), rm.streams,
                      data)

\* the server answers a QUERY with a result that has more pages and the
\* listener reads the frame
CyclePaged ==
    \E t \in 1..Len(tasks), c \in 1..Len(calls), p \in PagingStates :
        /\ tasks[t].st = "reading"
        /\ calls[c].pc \in {"waiting", "timedout"}
        /\ calls[c].sock = tasks[t].rd
        /\ socks[tasks[t].rd].state = "open"
        /\ calls[c].answer = 0
        /\ calls[c].input = Opcode.QUERY
        /\ \E rc \in {ReceivePaged(_rm_stream_id(_streams, calls[c].stream_id),
                                     _data, _prepared, _events, p)} :
               Cycled(t, c, Len(ServerFrames(Opcode.QUERY)) + 1, rc)
        /\ UNCHANGED <<client_vars, _last_stream_id, _connected, _running, _reader,
                       _writer, _read_task, socks, inp>>

\* execute and page_ after make_call has returned or raised: a PagingRows
\* has its request kept under its paging state
PageResume ==
    \E o \in 1..Len(ops) :
        /\ ops[o].pc = "call"
        /\ ops[o].call \in evset
        /\ \E r \in {retrieve(_data, ops[o].call)} :
               /\ _data' = r.data
               /\ IF r.err # ""
                  THEN Ended("resume", Over(calls, ops[o].call), o, r.err)
                  ELSE IF r.val.t = "PagingRows"
                  THEN /\ _paged' = _paging(_paged, r.val.v, Val(ops[o].req))
                       /\ ops' = [ops EXCEPT ![o] =
                                      [@ EXCEPT !.pc = "done", !.call = 0,
                                                !.res = Some(r.val.v)]]
                       /\ calls' = Over(calls, ops[o].call)
                       /\ out' = Stepped("resume", o, ops[o].call, "")
                       /\ UNCHANGED <<_conn, _is_ready_event, compress,
                                      decompress, _streams, _last_stream_id,
                                      socks>>
                  ELSE Ended("resume", Over(calls, ops[o].call), o, "")
        /\ UNCHANGED <<_connected, _running, _reader, _writer, _read_task,
                       protocol_vars, tasks, evset, inp>>

NextPaging ==
    \/ ExecuteQuery
    \/ Page
    \/ Cycle
    \/ CyclePaged
    \/ Drop
    \/ PageResume
    \/ CallTimeOut

SpecPaging == InitPaging /\ [][NextPaging]_vars

\* the page_ calls with the state that got past the test of _paged
Passed(p) ==
    {o \in 1..Len(ops) : ops[o].kind = "page" /\ ops[o].state = Some(p)
                            /\ ~IsNone(ops[o].req)}

\* the results that carried the state
Returned(p) == {o \in 1..Len(ops) : ops[o].res = Some(p)}

C38_Step ==
    out'.op = "page" =>
        \E p \in PagingStates :
            /\ ops'[out'.o].state = Some(p)
            /\ IF Has(_paged, p)
               THEN /\ ~Has(_paged', p)
                    /\ out'.err # "InternalDriverError"
               ELSE /\ out'.err = "InternalDriverError"
                    /\ UNCHANGED <<_paged, socks, _streams, calls>>

MaxTogether == 2

MakeCallTogether == MakeCallWithin(MaxTogether)

NextTogether ==
    \/ MakeCallTogether
    \/ Connected
    \/ ListenerStart
    \/ Receive
    \/ Retrieve
    \/ TimeOut
    \/ ReadReset
    \/ ReadEOF
    \/ Close

SpecTogether == Init /\ [][NextTogether]_vars

\* the sockets open_connection returned that nobody has closed or reset
OpenSockets == {s \in 1..Len(socks) : socks[s].state = "open"}

\* the listener tasks that have not ended
LiveListeners == {t \in 1..Len(tasks) : tasks[t].st # "done"}

\* C39: at no moment has the Dispatcher more than one open socket or more
\* than one listener task
C39_OneConnection ==
    /\ Cardinality(OpenSockets) <= 1
    /\ Cardinality(LiveListeners) <= 1

\* ------------------------------------------------ iterating Rows
\* A Rows container without col_specs, filled by add_row and iterated by
\* iter() and next(): inp is the object (index and _data), out the
\* iteration last started: what it has yielded (got), whether a
\* StopIteration was raised before it started (later) and where it stands
\* (op: iter or next while it runs, stop in the state its StopIteration
\* leaves).

\* the rows add_row is called with
RowInputs == {<<1, 2>>, <<3, 4>>}

\* Rows.__init__
NewRows == [index |-> 0, _data |-> <<>>]

InitIter ==
    /\ InitObjects
    /\ InitIdle
    /\ inp = NewRows
    /\ out = [op |-> "init", got |-> <<>>, stopped |-> FALSE, later |-> FALSE]

\* Rows.add_row where _fields is None
add_row(rows, row) == [rows EXCEPT !._data = Append(@, row)]

\* Rows.__next__: at the end the index goes back to 0 and StopIteration is
\* raised, otherwise the row at the index is returned and the index moves on
Rows_next(rows) ==
    IF rows.index = Len(rows._data)
    THEN [err |-> "StopIteration", val |-> <<>>, rows |-> [rows EXCEPT !.index = 0]]
    ELSE [err |-> "", val |-> rows._data[rows.index + 1],
          rows |-> [rows EXCEPT !.index = @ + 1]]

AddRow ==
    \E row \in RowInputs :
        /\ Len(inp._data) < MaxRows
        /\ inp' = add_row(inp, row)
        /\ out' = IF out.op \in {"iter", "next"} THEN out
                  ELSE [out EXCEPT !.op = "add"]
        /\ UNCHANGED <<client_vars, _streams, _last_stream_id, dispatcher_vars,
                       protocol_vars, env_vars>>

\* Rows.__iter__, which returns self: a for loop or list() starts, whatever
\* became of the iteration before
IterStart ==
    /\ out' = [op |-> "iter", got |-> <<>>, stopped |-> out.stopped,
               later |-> out.stopped]
    /\ UNCHANGED <<client_vars, _streams, _last_stream_id, dispatcher_vars,
                   protocol_vars, env_vars, inp>>

\* next() in the iteration last started
IterNext ==
    /\ out.op \in {"iter", "next"}
    /\ \E r \in {Rows_next(inp)} :
           /\ inp' = r.rows
           /\ out' = IF r.err # ""
                     THEN [out EXCEPT !.op = "stop", !.stopped = TRUE]
                     ELSE [out EXCEPT !.op = "next", !.got = Append(@, r.val)]
    /\ UNCHANGED <<client_vars, _streams, _last_stream_id, dispatcher_vars,
                   protocol_vars, env_vars>>

NextIter ==
    \/ AddRow
    \/ IterStart
    \/ IterNext

SpecIter == InitIter /\ [][NextIter]_vars

\* C40: an iteration started after some iteration of the same Rows has run
\* to StopIteration, and itself run to StopIteration, has yielded every row
\* of the container in insertion order
C40_LaterIterationYieldsAll ==
    (out.op = "stop" /\ out.later) => out.got = inp._data

====
